---- MODULE Spec2Model ----
(***************************************************************************)
(* Ticket allocation and settlement core of pixao_backend: the numbered    *)
(* slots of a draw, the reservations holding them, the payments selling    *)
(* them, vouchers, and the database sessions the handlers run on.          *)
(*                                                                         *)
(* Spec          : the reserve, checkout, settlement, voucher and admin    *)
(*                 handlers, each run alone (one request at a time); the   *)
(*                 statements of a handler then share one session and its  *)
(*                 BEGIN..COMMIT is a transaction.                         *)
(* SpecHold      : the reservation manager run alone, with the response of *)
(*                 each reserve request kept in last.                      *)
(* SpecVoucher   : voucher redemption without a reservation, over every    *)
(*                 small voucher table, with its response kept in last.    *)
(* SpecReserve   : two POST /api/reservations handlers, one SQL statement  *)
(*                 per step, every statement sent through query(), which   *)
(*                 hands it to whichever pooled connection pool.query()    *)
(*                 picks.                                                  *)
(* SpecFinalize  : two webhook settlements (settleApprovedPayment followed *)
(*                 by finalizeDrawIfComplete), one SQL statement per step, *)
(*                 through the same pool.                                  *)
(* SpecAutopay   : the autopay runner and its two triggers over every pair *)
(*                 of saved-card answers of the provider, next to reserve  *)
(*                 requests that take and age holds.                       *)
(* SpecSweep     : two handlers running reconciliation sweeps (the kick,   *)
(*                 forced or not, and POST /api/payments/reconcile), one   *)
(*                 payment per step, with the failure each step may meet.  *)
(* SpecSweepFair : the same sweeps, started and continued for ever, with   *)
(*                 the failures that interrupt a settlement part-way.      *)
(* SpecWebhook   : POST /api/payments/webhook with any notification and    *)
(*                 any failure, its response kept in last.                 *)
(* SpecAdmin     : the admin reopening of a draw (POST /:id/open) next to  *)
(*                 reserve, checkout and settlement requests.              *)
(* SpecRedeem    : two POST /api/vouchers/consume handlers of one user,    *)
(*                 one SQL statement per step, through the pool.           *)
(* SpecAutoRace  : runAutopayForDraw on its own client beside one reserve  *)
(*                 request, one SQL statement per step.                    *)
(* SpecSettleRace: one reserve request beside the webhook settlement of an *)
(*                 approved payment, one SQL statement per step, through   *)
(*                 the pool.                                               *)
(* SpecEnsure    : two requests, each ensure-open-draw or                  *)
(*                 purchases/confirm, for one product; draws then holds    *)
(*                 the draws of that product in id order.                  *)
(*                                                                         *)
(* Time is counted in minutes.  The literal 100 of the source (slots per   *)
(* draw, payments.js:52, reservations.js:63, purchases.js:45,             *)
(* infoproducts.js:381) is scaled to FullCount.                            *)
(***************************************************************************)
EXTENDS Integers, Sequences, FiniteSets, TLC

\* ---------------------------------------------------------------- bounds
FullCount == 2
MaxResv == 2
MaxPay == 2
MaxTime == 2
MaxReqLen == 2
MaxVouchers == 2
MaxRemaining == 2
MaxConns == 2
MaxCharges == 1

\* ------------------------------------------------------ program constants
\* RESERVATION_TTL_MIN, read at reservations.js:68 (set to 1 in the environment)
ttlMin == 1
\* PIX_EXP_MIN, payments.js:18-21: never below 30 minutes
PIX_EXP_MIN == 30
\* the sweep window in minutes, payments.js:101 and 404
RECONCILE_LOOKBACK_MINUTES == 1440
\* RECONCILE_MIN_INTERVAL_MS, payments.js:100: 45 s, one minute of the model's clock
RECONCILE_MIN_INTERVAL == 1
\* RECONCILE_BATCH_MAX, payments.js:102, set to 2 in the environment
RECONCILE_BATCH_MAX == 2

NULL == 0
Users == {1, 2}
\* the authenticated caller of the payment routes that never read req.user
\* (payments.js:302, 402, 456)
Callers == {1}
Draws == {1}
Slots == 0 .. (FullCount - 1)
ResIds == 1 .. MaxResv
PayIds == 1 .. MaxPay
Times == 0 .. MaxTime

VARIABLES
  now,           \* the clock (Date.now() / NOW()), minutes
  draws,         \* draws table: id -> [status, total_numbers, closed_at]
  numbers,       \* numbers table: draw -> n -> [status, reservation_id]
  reservations,  \* reservations table, rows created by POST /api/reservations
  payments,      \* payments table, rows created by POST /api/payments/pix
  mp,            \* the payment provider's status of each PIX payment
  cards,         \* the payment provider's side of each saved card
  recon,         \* payments.js module state: _reconInFlight and _reconLastAt
  paidRows,      \* rows inserted already settled: synthetic payments and paid reservations
  vouchers,      \* vouchers table, in creation order
  autopay_runs,  \* autopay_runs table (audit rows)
  last,          \* the response of the last request
  sess,          \* per pooled connection: is a transaction open on it
  rowLock,       \* row -> connection whose open transaction wrote or locked it
  undo,          \* per connection: the committed values its transaction replaced
  pc,            \* per concurrent handler: the statement it is about to send
  loc            \* per concurrent handler: its local variables

vars == <<now, draws, numbers, reservations, payments, mp, cards, recon, paidRows,
          vouchers,
          autopay_runs, last, sess, rowLock, undo, pc, loc>>

dbVars == <<draws, numbers, reservations, payments, paidRows, vouchers, autopay_runs>>
concVars == <<sess, rowLock, undo, pc, loc>>

\* ------------------------------------------------------------- helpers
Range(s) == {s[i] : i \in 1 .. Len(s)}

RECURSIVE SeqSum(_)
SeqSum(s) == IF s = <<>> THEN 0 ELSE Head(s) + SeqSum(Tail(s))

Min(a, b) == IF a <= b THEN a ELSE b

NoRow == [status |-> "absent", reservation_id |-> NULL]
NoResv == [user_id |-> NULL, draw_id |-> NULL, numbers |-> {}, status |-> "none",
           expires_at |-> 0, payment_id |-> NULL]
NoPay == [user_id |-> NULL, draw_id |-> NULL, numbers |-> {}, status |-> "none",
          created_at |-> 0]
NoResp == [op |-> "none", user |-> NULL, req |-> <<>>, code |-> 0, error |-> "",
           conflicts |-> {}, numbers |-> {}, id |-> NULL, freed |-> {},
           results |-> <<>>]

\* lower(status) IN ('approved','paid','pago')
ApprovedStatus == {"approved", "paid", "pago"}
\* lower(coalesce(status,'')) IN ('active','pending','reserved','')
BlockingStatus == {"active", "pending", "reserved", ""}

SetMax(S) == CHOOSE x \in S : \A y \in S : y <= x

\* the draw POST /api/reservations works on
TheDraw == SetMax(Draws)

\* rows of the payments table of draw d whose status counts as approved
ApprovedPaymentRows(pays, prows, d) ==
  {[user_id |-> pays[p].user_id, numbers |-> pays[p].numbers] :
      p \in {q \in PayIds : pays[q].draw_id = d /\ pays[q].status \in ApprovedStatus}}
  \cup
  {[user_id |-> r.user_id, numbers |-> r.numbers] :
      r \in {q \in prows : q.kind = "payment" /\ q.draw_id = d /\ q.status \in ApprovedStatus}}

\* reservations.js:146-157: numbers taken by an approved payment of the draw
paidTaken(pays, prows, d) ==
  UNION {r.numbers : r \in ApprovedPaymentRows(pays, prows, d)}

\* ------------------------------------------------ POST /api/reservations
RECURSIVE DedupInto(_, _)
DedupInto(s, acc) ==
  IF s = <<>> THEN acc
  ELSE IF Head(s) \in Range(acc) THEN DedupInto(Tail(s), acc)
  ELSE DedupInto(Tail(s), Append(acc, Head(s)))

\* reservations.js:60-65: keep the integers 0..99, drop repeats (first occurrence wins)
NormaliseNums(req) ==
  DedupInto(SelectSeq(req, LAMBDA n : n >= 0 /\ n <= FullCount - 1), <<>>)

OpenDraws(dr) == {d \in Draws : dr[d].status = "open"}

isBlocking(r) == r.status \in BlockingStatus
\* reservations.js:121: expires_at <= Date.now()
isExpired(r, t) == r.expires_at <= t

\* reservations.js:104-131: the reservations the loop over the locked rows expires
ExpiringRids(rows, rs, numSet, t) ==
  {rid \in ResIds :
     /\ rs[rid].status # "none"
     /\ isBlocking(rs[rid])
     /\ isExpired(rs[rid], t)
     /\ \E n \in numSet : rows[n].status = "reserved" /\ rows[n].reservation_id = rid}

\* the requested rows that point at reservation rid
HeldRows(rows, numSet, rid) ==
  {n \in numSet : rows[n].status = "reserved" /\ rows[n].reservation_id = rid}

\* reservations.js:123-128: the loop re-reads the reservation for every row, so
\* only the first row of an expiring reservation still sees it blocking and is
\* pushed to byResId; first[rid] is that row (the SELECT has no ORDER BY)
FirstRowChoices(rows, rs, numSet, t) ==
  {f \in [ExpiringRids(rows, rs, numSet, t) -> Slots] :
      \A rid \in DOMAIN f : f[rid] \in HeldRows(rows, numSet, rid)}

\* reservations.js:125
ExpireReservations(rs, rids) ==
  [r \in ResIds |-> IF r \in rids THEN [rs[r] EXCEPT !.status = "expired"] ELSE rs[r]]

\* reservations.js:134-144
FreeRows(rows, first) ==
  [n \in Slots |->
     IF \E rid \in DOMAIN first : first[rid] = n /\ rows[n].reservation_id = rid
     THEN [status |-> "available", reservation_id |-> NULL]
     ELSE rows[n]]

\* the conflict check without the approved-payment set
ReserveConflictsSlotOnly(rows, numSet, taken) ==
  {n \in numSet : rows[n].status # "available"}

\* reservations.js:169-174
ReserveConflicts(rows, numSet, taken) ==
  {n \in numSet : rows[n].status # "available" \/ n \in taken}

FreeResIds(rs) == {r \in ResIds : rs[r].status = "none"}

ReserveRequests ==
  UNION {[1 .. k -> 0 .. FullCount] : k \in 0 .. MaxReqLen}

\* the response is kept in last only in the specifications whose properties read it
Out(rec, resp) == IF rec THEN resp ELSE NoResp

Respond(op, u, req, code, error) ==
  [NoResp EXCEPT !.op = op, !.user = u, !.req = req, !.code = code, !.error = error]

\* reservations.js:39-221, the handler run alone
Reserve(u, req, rec) ==
  LET nums == NormaliseNums(req)
      numSet == Range(nums)
  IN
  /\ UNCHANGED <<now, draws, payments, mp, cards, recon, paidRows, vouchers, autopay_runs, concVars>>
  /\ IF req = <<>> THEN
       /\ last' = Out(rec, Respond("reserve", u, req, 400, "no_numbers"))
       /\ UNCHANGED <<numbers, reservations>>
     ELSE IF nums = <<>> THEN
       /\ last' = Out(rec, Respond("reserve", u, req, 400, "numbers_invalid"))
       /\ UNCHANGED <<numbers, reservations>>
     ELSE IF OpenDraws(draws) = {} THEN
       /\ last' = Out(rec, Respond("reserve", u, req, 400, "no_open_draw"))
       /\ UNCHANGED <<numbers, reservations>>
     ELSE
       LET drawId == SetMax(OpenDraws(draws))
           rows == numbers[drawId]
           notFound == {n \in numSet : rows[n].status = "absent"}
       IN
       IF notFound # {} THEN
         /\ last' = Out(rec, [Respond("reserve", u, req, 400, "numbers_not_found")
                       EXCEPT !.numbers = notFound])
         /\ UNCHANGED <<numbers, reservations>>
       ELSE
         \E first \in FirstRowChoices(rows, reservations, numSet, now) :
           LET rs2 == ExpireReservations(reservations, DOMAIN first)
               rows2 == FreeRows(rows, first)
               freed == {first[rid] : rid \in DOMAIN first}
               conflicts == ReserveConflicts(rows2, numSet,
                                             paidTaken(payments, paidRows, drawId))
           IN
           IF conflicts # {} THEN
             \* ROLLBACK
             /\ last' = Out(rec, [Respond("reserve", u, req, 409, "unavailable")
                           EXCEPT !.conflicts = conflicts, !.freed = freed])
             /\ UNCHANGED <<numbers, reservations>>
           ELSE
             /\ FreeResIds(reservations) # {}
             /\ LET reservationId == CHOOSE r \in FreeResIds(reservations) :
                                        \A q \in FreeResIds(reservations) : r <= q
                IN
                /\ reservations' =
                     [rs2 EXCEPT ![reservationId] =
                        [user_id |-> u, draw_id |-> drawId, numbers |-> numSet,
                         status |-> "active", expires_at |-> now + ttlMin,
                         payment_id |-> NULL]]
                /\ numbers' =
                     [numbers EXCEPT ![drawId] =
                        [n \in Slots |->
                           IF n \in numSet
                           THEN [status |-> "reserved", reservation_id |-> reservationId]
                           ELSE rows2[n]]]
                /\ last' = Out(rec, [Respond("reserve", u, req, 201, "")
                              EXCEPT !.numbers = numSet, !.id = reservationId,
                                     !.freed = freed])

\* reservations.js:16-22, first statement of cleanupExpiredGlobal
cleanupExpire ==
  /\ reservations' =
       [r \in ResIds |->
          IF /\ reservations[r].status # "none"
             /\ reservations[r].expires_at < now
             /\ isBlocking(reservations[r])
          THEN [reservations[r] EXCEPT !.status = "expired"]
          ELSE reservations[r]]
  /\ reservations' # reservations
  /\ last' = NoResp
  /\ UNCHANGED <<now, draws, numbers, payments, mp, cards, recon, paidRows, vouchers, autopay_runs, concVars>>

\* the reservation row a slot points at is there and blocking
HasBlockingReservation(rs, rid) ==
  rid \in ResIds /\ rs[rid].status # "none" /\ isBlocking(rs[rid])

\* reservations.js:25-36, second statement of cleanupExpiredGlobal
cleanupFree ==
  /\ numbers' =
       [d \in Draws |-> [n \in Slots |->
          IF /\ numbers[d][n].status = "reserved"
             /\ ~HasBlockingReservation(reservations, numbers[d][n].reservation_id)
          THEN [status |-> "available", reservation_id |-> NULL]
          ELSE numbers[d][n]]]
  /\ numbers' # numbers
  /\ last' = NoResp
  /\ UNCHANGED <<now, draws, reservations, payments, mp, cards, recon, paidRows, vouchers, autopay_runs, concVars>>

Tick ==
  /\ now < MaxTime
  /\ now' = now + 1
  /\ last' = NoResp
  /\ UNCHANGED <<dbVars, mp, cards, recon, concVars>>

\* ------------------------------------------------------ /api/payments
\* the tables the settlement paths write, as one value
Ledger == [payments |-> payments, numbers |-> numbers,
           reservations |-> reservations, draws |-> draws]

SoldCount(nm, d) == Cardinality({n \in Slots : nm[d][n].status = "sold"})

\* a settlement that sells the numbers and leaves the reservation as it was
settleNumbersOnly(L, id, drawId, nums) ==
  [L EXCEPT
     !.numbers =
        [d \in Draws |-> [n \in Slots |->
           IF d = drawId /\ n \in nums /\ L.numbers[d][n].status # "absent"
           THEN [status |-> "sold", reservation_id |-> NULL]
           ELSE L.numbers[d][n]]]]

\* payments.js:73-89
settleApprovedPayment(L, id, drawId, nums) ==
  [L EXCEPT
     !.numbers =
        [d \in Draws |-> [n \in Slots |->
           IF d = drawId /\ n \in nums /\ L.numbers[d][n].status # "absent"
           THEN [status |-> "sold", reservation_id |-> NULL]
           ELSE L.numbers[d][n]]],
     !.reservations =
        [r \in ResIds |->
           IF L.reservations[r].status # "none" /\ L.reservations[r].payment_id = id
           THEN [L.reservations[r] EXCEPT !.status = "paid"]
           ELSE L.reservations[r]]]

\* a completion check that stamps closed_at on every run
finalizeRestamping(L, drawId, t) ==
  IF drawId \notin Draws THEN L
  ELSE IF SoldCount(L.numbers, drawId) = FullCount
  THEN [L EXCEPT !.draws[drawId].status = "closed",
                 !.draws[drawId].closed_at = <<t>>]
  ELSE L

\* payments.js:27-71
finalizeDrawIfComplete(L, drawId, t) ==
  IF drawId \notin Draws THEN L
  ELSE IF SoldCount(L.numbers, drawId) = FullCount
  THEN [L EXCEPT !.draws[drawId].status = "closed",
                 !.draws[drawId].closed_at =
                     IF L.draws[drawId].closed_at = <<>> THEN <<t>>
                     ELSE L.draws[drawId].closed_at]
  ELSE L

\* the routine every trigger runs for an approved payment
\* (payments.js:147-155, 310-318, 353-361, 430-438, 475-482)
SettlementRoutine(L, id, t) ==
  IF L.payments[id].status = "none" THEN L
  ELSE finalizeDrawIfComplete(
         settleApprovedPayment(L, id, L.payments[id].draw_id, L.payments[id].numbers),
         L.payments[id].draw_id, t)

\* one provider answer st for payment id, handled as the webhook, the status
\* poll, the replay and each sweep iteration handle it
HandleProviderStatus(L, id, st, t) ==
  LET L1 == IF L.payments[id].status = "none" THEN L
            ELSE [L EXCEPT !.payments[id].status = st]
  IN IF st = "approved" THEN SettlementRoutine(L1, id, t) ELSE L1

ApplyLedger(L) ==
  /\ payments' = L.payments
  /\ numbers' = L.numbers
  /\ reservations' = L.reservations
  /\ draws' = L.draws

FreePayIds == {p \in PayIds : mp[p] = "none"}

\* payments.js:202-296
PixCheckout(u, reservationId, rec) ==
  LET rs == reservations[reservationId] IN
  /\ UNCHANGED <<now, draws, numbers, cards, recon, paidRows, vouchers, autopay_runs, concVars>>
  /\ IF rs.status = "none" THEN
       /\ last' = Out(rec, Respond("pix", u, <<>>, 404, "reservation_not_found"))
       /\ UNCHANGED <<reservations, payments, mp, cards, recon>>
     ELSE IF rs.status # "active" THEN
       /\ last' = Out(rec, Respond("pix", u, <<>>, 400, "reservation_not_active"))
       /\ UNCHANGED <<reservations, payments, mp, cards, recon>>
     ELSE IF rs.expires_at < now THEN
       /\ last' = Out(rec, Respond("pix", u, <<>>, 400, "reservation_expired"))
       /\ UNCHANGED <<reservations, payments, mp, cards, recon>>
     ELSE
       /\ FreePayIds # {}
       /\ LET id == CHOOSE p \in FreePayIds : \A q \in FreePayIds : p <= q IN
          /\ mp' = [mp EXCEPT ![id] = "pending"]
          /\ payments' = [payments EXCEPT ![id] =
                            [user_id |-> rs.user_id, draw_id |-> rs.draw_id,
                             numbers |-> rs.numbers, status |-> "pending",
                             created_at |-> now]]
          /\ reservations' = [reservations EXCEPT ![reservationId].payment_id = id]
          /\ last' = Out(rec, [Respond("pix", u, <<>>, 200, "") EXCEPT !.id = id])

\* the payer pays the PIX charge before date_of_expiration (payments.js:257)
MpApprove(id) ==
  /\ mp[id] = "pending"
  /\ now <= payments[id].created_at + PIX_EXP_MIN
  /\ mp' = [mp EXCEPT ![id] = "approved"]
  /\ last' = NoResp
  /\ UNCHANGED <<now, cards, recon, dbVars, concVars>>

\* payments.js:331-368
Webhook(id, rec) ==
  /\ mp[id] # "none"
  /\ ApplyLedger(HandleProviderStatus(Ledger, id, mp[id], now))
  /\ last' = Out(rec, [Respond("webhook", NULL, <<>>, 200, "") EXCEPT !.id = id])
  /\ UNCHANGED <<now, mp, cards, recon, paidRows, vouchers, autopay_runs, concVars>>

\* payments.js:302-325
StatusPoll(u, id, rec) ==
  /\ mp[id] # "none"
  /\ ApplyLedger(HandleProviderStatus(Ledger, id, mp[id], now))
  /\ last' = Out(rec, [Respond("status", u, <<>>, 200, "") EXCEPT !.id = id])
  /\ UNCHANGED <<now, mp, cards, recon, paidRows, vouchers, autopay_runs, concVars>>

\* payments.js:456-489
WebhookReplay(u, id, rec) ==
  /\ mp[id] # "none"
  /\ ApplyLedger(HandleProviderStatus(Ledger, id, mp[id], now))
  /\ last' = Out(rec, [Respond("replay", u, <<>>, 200, "") EXCEPT !.id = id])
  /\ UNCHANGED <<now, mp, cards, recon, paidRows, vouchers, autopay_runs, concVars>>

\* payments.js:405-411: the payments a sweep scans
SweepRows(L, t) ==
  {p \in PayIds :
     /\ L.payments[p].status # "none"
     /\ L.payments[p].status \notin ApprovedStatus
     /\ L.payments[p].created_at >= t - RECONCILE_LOOKBACK_MINUTES}

\* a sweep that stores the provider's answers and settles nothing
RECURSIVE SweepStoresOnly(_, _, _)
SweepStoresOnly(L, rows, t) ==
  IF rows = {} THEN L
  ELSE LET id == SetMax(rows)
       IN SweepStoresOnly([L EXCEPT !.payments[id].status = mp[id]], rows \ {id}, t)

\* payments.js:415-443: the sweep loop
RECURSIVE SweepLoop(_, _, _)
SweepLoop(L, rows, t) ==
  IF rows = {} THEN L
  ELSE LET id == SetMax(rows)
       IN SweepLoop(HandleProviderStatus(L, id, mp[id], t), rows \ {id}, t)

\* payments.js:402-450
Reconcile(u, rec) ==
  /\ SweepRows(Ledger, now) # {}
  /\ ApplyLedger(SweepLoop(Ledger, SweepRows(Ledger, now), now))
  /\ last' = Out(rec, Respond("reconcile", u, <<>>, 200, ""))
  /\ UNCHANGED <<now, mp, cards, recon, paidRows, vouchers, autopay_runs, concVars>>

\* ---------------------------------------- sweeps and failures (payments.js)
\* where the processing of one provider answer fails: nowhere, in the provider
\* query, in the UPDATE that stores the status, in the first or in the second
\* UPDATE of settleApprovedPayment
Faults == {"none", "provider", "store", "numbers", "reservations"}

\* the statements of one iteration throw
Threw(fault, st) ==
  \/ fault \in {"provider", "store"}
  \/ st = "approved" /\ fault \in {"numbers", "reservations"}

\* payments.js:134-155 (and 341-362, 417-438): one provider answer st for
\* payment id, processed statement by statement up to the one that fails
ProcessPayment(L, id, st, t, fault) ==
  IF fault \in {"provider", "store"} \/ L.payments[id].status = "none" THEN L
  ELSE
    LET L1 == [L EXCEPT !.payments[id].status = st]
        drawId == L.payments[id].draw_id
        nums == L.payments[id].numbers
    IN IF st # "approved" \/ fault = "numbers" THEN L1
       ELSE IF fault = "reservations"
       THEN [L1 EXCEPT !.numbers = settleApprovedPayment(L1, id, drawId, nums).numbers]
       ELSE SettlementRoutine(L1, id, t)

\* a webhook that ignores only the notifications without an id
WebhookIgnoresMissingId(type, id) == id = NULL

\* payments.js:333-337: the notifications the webhook answers without processing
WebhookIgnores(type, id) == type = "other" \/ id = NULL

NotificationTypes == {"payment", "other", "absent"}

\* payments.js:331-368: any notification, with the failure its processing meets
WebhookNotification(type, id, fault, rec) ==
  /\ id # NULL => mp[id] # "none"
  /\ IF WebhookIgnores(type, id)
     THEN /\ UNCHANGED <<payments, numbers, reservations, draws>>
          /\ last' = Out(rec, Respond("webhook", NULL, <<>>, 200, ""))
     ELSE /\ ApplyLedger(ProcessPayment(Ledger, id, mp[id], now, fault))
          /\ last' = Out(rec, Respond("webhook", NULL, <<>>, 200, ""))
  /\ UNCHANGED <<now, mp, cards, recon, paidRows, vouchers, autopay_runs, concVars>>

\* payments.js:105-106
IdleRecon == [inFlight |-> FALSE, lastAt |-> 0 - RECONCILE_MIN_INTERVAL]

SweepKinds == {"kick", "forced", "ondemand"}

\* the locals of a sweep: the rows still to visit, the rows selected, the rows
\* the provider was asked about, and the counters of the answer
NoSweep == [kind |-> "none", rows |-> {}, batch |-> {}, queried |-> {},
            updated |-> 0, approved |-> 0, failed |-> 0]

\* payments.js:120-130: the newest RECONCILE_BATCH_MAX rows of the window
KickBatches(L, t) ==
  LET rows == SweepRows(L, t)
      size == Min(RECONCILE_BATCH_MAX, Cardinality(rows))
  IN {B \in SUBSET rows :
        /\ Cardinality(B) = size
        /\ \A p \in B, q \in rows \ B : L.payments[p].created_at >= L.payments[q].created_at}

\* payments.js:111-115: a call without force is dropped while a sweep is in
\* flight or the last one started less than the minimum interval ago
KickAdmitted(kind) ==
  kind = "kick" => (~recon.inFlight /\ now - recon.lastAt >= RECONCILE_MIN_INTERVAL)

\* payments.js:109-130 and 402-411: a sweep starts and selects its rows
SweepStart(h, kind) ==
  /\ pc[h] = "idle"
  /\ KickAdmitted(kind)
  /\ recon' = IF kind = "ondemand" THEN recon ELSE [inFlight |-> TRUE, lastAt |-> now]
  /\ \E B \in (IF kind = "ondemand" THEN {SweepRows(Ledger, now)}
               ELSE KickBatches(Ledger, now)) :
        loc' = [loc EXCEPT ![h] = [NoSweep EXCEPT !.kind = kind, !.rows = B, !.batch = B]]
  /\ pc' = [pc EXCEPT ![h] = "loop"]
  /\ last' = NoResp
  /\ UNCHANGED <<now, dbVars, mp, cards, sess, rowLock, undo>>

\* a sweep that gives the batch up at the first failure
SweepAbandons(rows, id) == {}

\* payments.js:156-159: the rows left to visit after the iteration for id failed
RowsAfterFailure(rows, id) == rows \ {id}

\* the rows the loop may visit next: the kick visits them newest first, the
\* on-demand sweep in the order the SELECT happened to return
NextRows(L, l) ==
  IF l.kind = "ondemand" THEN l.rows
  ELSE {p \in l.rows : \A q \in l.rows : L.payments[p].created_at >= L.payments[q].created_at}

\* payments.js:132-160 and 415-443: one iteration of the loop
SweepStep(h, id, fault) ==
  /\ pc[h] = "loop"
  /\ id \in NextRows(Ledger, loc[h])
  /\ ApplyLedger(ProcessPayment(Ledger, id, mp[id], now, fault))
  /\ loc' = [loc EXCEPT ![h] =
        [@ EXCEPT !.rows = IF Threw(fault, mp[id]) THEN RowsAfterFailure(@, id) ELSE @ \ {id},
                  !.queried = @ \cup {id},
                  !.updated = IF fault \in {"provider", "store"} THEN @ ELSE @ + 1,
                  !.approved = IF mp[id] = "approved" /\ fault = "none" THEN @ + 1 ELSE @,
                  !.failed = IF Threw(fault, mp[id]) THEN @ + 1 ELSE @]]
  /\ last' = NoResp
  /\ UNCHANGED <<now, mp, cards, recon, paidRows, vouchers, autopay_runs, sess, rowLock,
                 undo, pc>>

\* payments.js:162 and 166-168, 445: the loop is over, the sweep answers
SweepEnd(h, rec) ==
  /\ pc[h] = "loop"
  /\ loc[h].rows = {}
  /\ recon' = IF loc[h].kind = "ondemand" THEN recon ELSE [recon EXCEPT !.inFlight = FALSE]
  /\ last' = Out(rec, [Respond(loc[h].kind, NULL, <<>>, 200, "") EXCEPT
                          !.results = <<[scanned |-> Cardinality(loc[h].batch),
                                         updated |-> loc[h].updated,
                                         approved |-> loc[h].approved,
                                         failed |-> loc[h].failed]>>])
  /\ pc' = [pc EXCEPT ![h] = "idle"]
  /\ loc' = [loc EXCEPT ![h] = NoSweep]
  /\ UNCHANGED <<now, dbVars, mp, cards, sess, rowLock, undo>>

\* ------------------------------------------------ POST /api/vouchers/consume
\* the same rows, newest first
VoucherRowsNewestFirst(vs, u, d) ==
  LET s == SelectSeq([i \in 1 .. Len(vs) |-> i],
             LAMBDA i : vs[i].user_id = u /\ vs[i].draw_id = d /\ vs[i].remaining > 0)
  IN [i \in 1 .. Len(s) |-> s[Len(s) + 1 - i]]

\* vouchers.js:223-232: the user's voucher rows of the draw with balance left,
\* oldest first (positions in the table, which is kept in creation order)
VoucherRows(vs, u, d) ==
  SelectSeq([i \in 1 .. Len(vs) |-> i],
            LAMBDA i : vs[i].user_id = u /\ vs[i].draw_id = d /\ vs[i].remaining > 0)

\* vouchers.js:263-278: the debit loop over vrows
RECURSIVE DebitVouchers(_, _, _)
DebitVouchers(vs, vrows, toConsume) ==
  IF vrows = <<>> \/ toConsume <= 0 THEN vs
  ELSE LET i == Head(vrows)
           take == Min(vs[i].remaining, toConsume)
       IN DebitVouchers([vs EXCEPT ![i].remaining = @ - take], Tail(vrows),
                        toConsume - take)

VoucherRequests ==
  UNION {[1 .. k -> Slots] : k \in 1 .. MaxReqLen}

\* vouchers.js:129-157
VoucherReservationActive(rs, reservationId, u, d) ==
  /\ reservationId \in ResIds
  /\ rs[reservationId].status # "none"
  /\ rs[reservationId].user_id = u
  /\ rs[reservationId].draw_id = d
  /\ rs[reservationId].status \notin {"paid", "expired", "cancelled"}

\* vouchers.js:159-215
VoucherConflicts(rows, rs, numSet, u, d, reservationId) ==
  LET ownedReserved == IF reservationId = NULL THEN {}
                       ELSE numSet \cap rs[reservationId].numbers
      soldConflicts == {n \in numSet : rows[n].status = "sold"}
      reservedByOthers ==
        numSet \cap UNION {rs[r].numbers :
           r \in {q \in ResIds : /\ rs[q].draw_id = d
                                 /\ rs[q].user_id # u
                                 /\ rs[q].status \in {"active", "reserved", "pending", "await"}}}
      additionalReserved == IF reservationId = NULL
                            THEN {n \in numSet : rows[n].status = "reserved"}
                            ELSE {}
  IN (soldConflicts \cup reservedByOthers \cup additionalReserved) \ ownedReserved

\* vouchers.js:115-340, the handler run alone
VoucherConsume(u, d, req, reservationId, rec) ==
  LET nums == DedupInto(req, <<>>)
      numSet == Range(nums)
      rows == numbers[d]
      vrows == VoucherRows(vouchers, u, d)
      totalRemaining == SeqSum([i \in 1 .. Len(vrows) |-> vouchers[vrows[i]].remaining])
  IN
  /\ UNCHANGED <<now, draws, payments, mp, cards, recon, autopay_runs, concVars>>
  /\ IF reservationId # NULL /\ ~VoucherReservationActive(reservations, reservationId, u, d)
     THEN
       /\ last' = Out(rec, Respond("voucher", u, <<>>, 409, "reservation_not_active"))
       /\ UNCHANGED <<numbers, reservations, vouchers, paidRows>>
     ELSE IF VoucherConflicts(rows, reservations, numSet, u, d, reservationId) # {} THEN
       /\ last' = Out(rec, [Respond("voucher", u, <<>>, 409, "numbers_conflict") EXCEPT
                     !.conflicts = VoucherConflicts(rows, reservations, numSet, u, d,
                                                    reservationId)])
       /\ UNCHANGED <<numbers, reservations, vouchers, paidRows>>
     ELSE IF totalRemaining < Len(nums) THEN
       /\ last' = Out(rec, Respond("voucher", u, <<>>, 409, "not_enough_vouchers"))
       /\ UNCHANGED <<numbers, reservations, vouchers, paidRows>>
     ELSE IF \E n \in numSet : rows[n].status \notin {"absent", "available", "reserved"} THEN
       \* vouchers.js:256-259: the upsert touched no row
       /\ last' = Out(rec, [Respond("voucher", u, <<>>, 409, "numbers_conflict") EXCEPT
                     !.conflicts = {n \in numSet :
                        rows[n].status \notin {"absent", "available", "reserved"}}])
       /\ UNCHANGED <<numbers, reservations, vouchers, paidRows>>
     ELSE
       /\ numbers' = [numbers EXCEPT ![d] =
            [n \in Slots |->
               IF n \in numSet
               THEN [status |-> "sold", reservation_id |-> rows[n].reservation_id]
               ELSE rows[n]]]
       /\ vouchers' = DebitVouchers(vouchers, vrows, Len(nums))
       /\ reservations' =
            IF reservationId = NULL THEN reservations
            ELSE [reservations EXCEPT ![reservationId].status = "paid"]
       /\ paidRows' = paidRows \cup
            {[kind |-> "payment", user_id |-> u, draw_id |-> d, numbers |-> numSet,
              status |-> "paid"]}
       /\ last' = Out(rec, [Respond("voucher", u, <<>>, 200, "") EXCEPT !.numbers = numSet])

\* ------------------------------------------------ autopay (autopayRunner.js)
\* autopay_profiles joined with autopay_numbers: active profiles with a saved card
AutopayProfiles ==
  <<[id |-> 1, user_id |-> 1, numbers |-> <<0, 1>>],
    [id |-> 2, user_id |-> 2, numbers |-> <<1, 2>>]>>

ProfileIds == 1 .. Len(AutopayProfiles)

\* the SELECT of the profiles has no ORDER BY: the loop may meet them in any order
ProfileOrders ==
  {o \in [ProfileIds -> ProfileIds] : \A i, j \in ProfileIds : o[i] = o[j] => i = j}

\* what the provider answers to the two calls of one saved-card charge: the call
\* it refuses ("none": both accepted), the message and the cause list of the
\* refusal ("": absent, "plain": some other text, "security_code": text naming
\* the security code), and the status of the payment when nothing is refused
ProviderAnswers ==
  [step : {"none"}, message : {""}, cause : {""}, status : {"approved", "rejected"}]
  \cup
  [step : {"token", "payment"}, message : {"", "plain", "security_code"},
   cause : {"", "plain", "security_code"}, status : {""}]

\* the answers the saved cards of the model get
CardAnswers ==
  {a \in ProviderAnswers :
     \/ a.step = "none"
     \/ a.step = "token" /\ a.message = "plain" /\ a.cause \in {"", "security_code"}
     \/ a.step = "payment" /\ a.message = "security_code" /\ a.cause = ""
     \/ a.step = "payment" /\ a.message = "plain" /\ a.cause = "security_code"}

\* the provider's book of each saved card: the answer it gives to a charge and
\* the charges it has approved and refused so far
IdleCards ==
  [p \in ProfileIds |->
     [answer |-> [step |-> "none", message |-> "", cause |-> "", status |-> "approved"],
      approved |-> 0, failed |-> 0]]

\* the provider asks for the card's security code
DemandsSecurityCode(a) ==
  a.step # "none" /\ (a.message = "security_code" \/ a.cause = "security_code")

\* mercadopago.js:68-89: the message of the Error mpFetch throws for a refused
\* call is the body's message when it has one, else a text built from the causes
mpFetchMessage(a) ==
  IF a.message # "" THEN a.message
  ELSE IF a.cause # "" THEN a.cause
  ELSE "plain"

\* mercadopago.js:163-219: the outcome of one saved-card charge
mpChargeCard(a) ==
  IF a.step = "token" THEN
    LET raw == IF a.cause # "" THEN a.cause ELSE mpFetchMessage(a) IN
    IF raw = "security_code"
    THEN [threw |-> TRUE, code |-> "SECURITY_CODE_REQUIRED",
          message |-> "security_code", status |-> ""]
    ELSE [threw |-> TRUE, code |-> "", message |-> mpFetchMessage(a), status |-> ""]
  ELSE IF a.step = "payment" THEN
    [threw |-> TRUE, code |-> "", message |-> mpFetchMessage(a), status |-> ""]
  ELSE [threw |-> FALSE, code |-> "", message |-> "", status |-> a.status]

\* autopayRunner.js:229-232
requiresCVV(e) == e.code = "SECURITY_CODE_REQUIRED" \/ e.message = "security_code"

\* reservations rows of draw d, whoever inserted them
ReservationRows(rs, prows, d) ==
  {[user_id |-> rs[r].user_id, numbers |-> rs[r].numbers, status |-> rs[r].status] :
      r \in {q \in ResIds : rs[q].status # "none" /\ rs[q].draw_id = d}}
  \cup
  {[user_id |-> r.user_id, numbers |-> r.numbers, status |-> r.status] :
      r \in {q \in prows : q.kind = "reservation" /\ q.draw_id = d}}

\* autopayRunner.js:91-129
isNumberFree(pays, prows, rs, d, n) ==
  /\ n \notin paidTaken(pays, prows, d)
  /\ ~\E r \in ReservationRows(rs, prows, d) :
        r.status \in {"active", "pending", "paid"} /\ n \in r.numbers

\* the reservation id the database generates for an autopay purchase
AutopayResId == MaxResv + 1

\* autopayRunner.js:192: the favourites of a profile that are numbers of a draw
Wants(p) == SelectSeq(p.numbers, LAMBDA n : n >= 0 /\ n <= FullCount - 1)

\* the provider's book of one card after one more charge with outcome c
Charged(card, c) ==
  IF ~c.threw /\ c.status = "approved"
  THEN [card EXCEPT !.approved = @ + 1]
  ELSE [card EXCEPT !.failed = @ + 1]

\* a purchase that records the payment and the reservation and leaves the slots
AutopayPurchaseNoSlots(T, d, p, freeSet) ==
  [T EXCEPT
     !.paidRows = @ \cup
        {[kind |-> "payment", user_id |-> p.user_id, draw_id |-> d,
          numbers |-> freeSet, status |-> "approved"],
         [kind |-> "reservation", user_id |-> p.user_id, draw_id |-> d,
          numbers |-> freeSet, status |-> "paid"]}]

\* autopayRunner.js:256-283: the payment, the paid reservation and the sold slots
\* of an approved charge
AutopayPurchase(T, d, p, freeSet) ==
  [T EXCEPT
     !.paidRows = @ \cup
        {[kind |-> "payment", user_id |-> p.user_id, draw_id |-> d,
          numbers |-> freeSet, status |-> "approved"],
         [kind |-> "reservation", user_id |-> p.user_id, draw_id |-> d,
          numbers |-> freeSet, status |-> "paid"]},
     !.rows = [n \in Slots |->
                 IF n \in freeSet /\ T.rows[n].status # "absent"
                 THEN [status |-> "sold", reservation_id |-> AutopayResId]
                 ELSE T.rows[n]]]

\* autopayRunner.js:190-305: the profiles order[k], order[k+1], ... processed on
\* the tables T of the open transaction; fail is the profile whose records the
\* database refuses to write (0: none), which ends the loop in the catch of 317
RECURSIVE AutopayLoop(_, _, _, _, _)
AutopayLoop(T, d, order, k, fail) ==
  IF k > Len(order) \/ T.aborted THEN T
  ELSE
    LET p == AutopayProfiles[order[k]]
        wants == Wants(p)
        free == SelectSeq(wants, LAMBDA n :
                   isNumberFree(payments, T.paidRows, reservations, d, n))
        freeSet == Range(free)
        c == mpChargeCard(T.cards[p.id].answer)
        T1 == [T EXCEPT !.cards[p.id] = Charged(@, c)]
        audit(st, err, bought) ==
          [autopay_id |-> p.id, user_id |-> p.user_id, draw_id |-> d,
           tried_numbers |-> freeSet, bought_numbers |-> bought,
           status |-> st, error |-> err]
        result(st, reason, nums) ==
          [user_id |-> p.user_id, status |-> st, reason |-> reason, numbers |-> nums]
    IN
    IF wants = <<>> THEN
      AutopayLoop([T EXCEPT !.results = Append(@, result("skipped", "no_numbers", {}))],
                  d, order, k + 1, fail)
    ELSE IF free = <<>> THEN
      AutopayLoop([T EXCEPT !.results = Append(@, result("skipped", "none_available", {}))],
                  d, order, k + 1, fail)
    ELSE IF fail = p.id THEN
      [T1 EXCEPT !.aborted = TRUE]
    ELSE IF c.threw /\ requiresCVV(c) THEN
      AutopayLoop([T1 EXCEPT
                     !.autopay_runs = @ \cup {audit("error", "security_code_required", {})},
                     !.results = Append(@, result("skipped", "security_code_required", {}))],
                  d, order, k + 1, fail)
    ELSE IF c.threw THEN
      AutopayLoop([T1 EXCEPT
                     !.autopay_runs = @ \cup {audit("error", c.message, {})},
                     !.results = Append(@, result("error", "charge_failed", {}))],
                  d, order, k + 1, fail)
    ELSE IF c.status # "approved" THEN
      AutopayLoop([T1 EXCEPT
                     !.autopay_runs = @ \cup {audit("error", "not_approved", {})},
                     !.results = Append(@, result("error", "not_approved", {}))],
                  d, order, k + 1, fail)
    ELSE
      AutopayLoop([AutopayPurchase(T1, d, p, freeSet) EXCEPT
                     !.autopay_runs = @ \cup {audit("ok", "", freeSet)},
                     !.results = Append(@, result("ok", "", freeSet))],
                  d, order, k + 1, fail)

\* autopayRunner.js:134-325: one call of runAutopayForDraw, answering as op, on
\* the draws table dr its caller left
AutopayRunOn(dr, d, order, fail, rec, op) ==
  IF dr[d].status # "open" THEN
    /\ last' = Out(rec, Respond(op, NULL, <<>>, 500, "draw_not_open"))
    /\ draws' = dr
    /\ UNCHANGED <<numbers, paidRows, autopay_runs, cards>>
  ELSE IF dr[d].autopay_ran_at # <<>> THEN
    /\ last' = Out(rec, Respond(op, NULL, <<>>, 500, "autopay_already_ran"))
    /\ draws' = dr
    /\ UNCHANGED <<numbers, paidRows, autopay_runs, cards>>
  ELSE
    LET T == AutopayLoop([paidRows |-> paidRows, rows |-> numbers[d],
                          autopay_runs |-> autopay_runs, results |-> <<>>,
                          cards |-> cards, aborted |-> FALSE],
                         d, order, 1, fail)
    IN
    /\ \A p \in ProfileIds : T.cards[p].approved + T.cards[p].failed <= MaxCharges
    /\ cards' = T.cards
    /\ IF T.aborted THEN
         \* 317-320: ROLLBACK of everything the run wrote
         /\ last' = Out(rec, Respond(op, NULL, <<>>, 500, "run_failed"))
         /\ draws' = dr
         /\ UNCHANGED <<numbers, paidRows, autopay_runs>>
       ELSE
         /\ paidRows' = T.paidRows
         /\ numbers' = [numbers EXCEPT ![d] = T.rows]
         /\ autopay_runs' = T.autopay_runs
         /\ draws' = [dr EXCEPT ![d].autopay_ran_at = <<now>>]
         /\ last' = Out(rec, [Respond(op, NULL, <<>>, 200, "") EXCEPT
                       !.results = T.results,
                       !.numbers = UNION {r.bought_numbers :
                                            r \in T.autopay_runs \ autopay_runs}])

AutopayRun(d, order, fail, rec, op) == AutopayRunOn(draws, d, order, fail, rec, op)

\* autopayRunner.js:134-325, reached from POST /api/admin/draws/:id/autopay-run
runAutopayForDraw(d, order, fail, rec) ==
  /\ UNCHANGED <<now, reservations, payments, mp, recon, vouchers, concVars>>
  /\ AutopayRun(d, order, fail, rec, "autopay")

\* autopayRunner.js:371-405, reached from POST /api/admin/autopay/run/:drawId
ensureAutopayForDraw(d, force, order, fail, rec) ==
  /\ UNCHANGED <<now, reservations, payments, mp, recon, vouchers, concVars>>
  /\ IF draws[d].status # "open" THEN
       /\ last' = Out(rec, Respond("ensure", NULL, <<>>, 200, "draw_not_open"))
       /\ UNCHANGED <<draws, numbers, paidRows, autopay_runs, cards>>
     ELSE IF draws[d].autopay_ran_at # <<>> /\ ~force THEN
       /\ last' = Out(rec, Respond("ensure", NULL, <<>>, 200, "already_ran"))
       /\ UNCHANGED <<draws, numbers, paidRows, autopay_runs, cards>>
     ELSE AutopayRun(d, order, fail, rec, "ensure")

\* autopayRunner.js:334-343: the draws the batch run selects
OpenDrawsForAutopay(dr, force) ==
  {d \in Draws : dr[d].status = "open" /\ (force \/ dr[d].autopay_ran_at = <<>>)}

\* autopayRunner.js:329-366, reached from POST /api/admin/autopay/run; the one
\* draw of the model is the whole batch
runAutopayForOpenDraws(force, order, fail, rec) ==
  /\ UNCHANGED <<now, reservations, payments, mp, recon, vouchers, concVars>>
  /\ IF OpenDrawsForAutopay(draws, force) = {} THEN
       /\ last' = Out(rec, Respond("batch", NULL, <<>>, 200, "none_pending"))
       /\ UNCHANGED <<draws, numbers, paidRows, autopay_runs, cards>>
     ELSE AutopayRun(SetMax(OpenDrawsForAutopay(draws, force)), order, fail, rec, "batch")

\* admin_draws.js:151-176, POST /api/admin/draws/:id/open: the draw is reopened
\* by a statement of its own, then runAutopayForDraw runs
AdminOpen(d, order, fail, rec) ==
  /\ UNCHANGED <<now, reservations, payments, mp, recon, vouchers, concVars>>
  /\ AutopayRunOn([draws EXCEPT ![d].status = "open", ![d].closed_at = <<>>,
                                ![d].autopay_ran_at = <<>>],
                  d, order, fail, rec, "open")

\* ------------------------- POST /api/admin/users/:id/assign-numbers
AssignRequests == (SUBSET Slots) \ {{}}

\* admin_users.js:231-338
AssignNumbers(u, d, numSet, rec) ==
  LET payConf == numSet \cap paidTaken(payments, paidRows, d)
      resvConf == numSet \cap UNION {r.numbers :
                     r \in {q \in ReservationRows(reservations, paidRows, d) :
                              q.status \in {"active", "pending", "paid"}}}
  IN
  /\ UNCHANGED <<now, draws, numbers, reservations, payments, mp, cards, recon, vouchers,
                 autopay_runs, concVars>>
  /\ IF payConf # {} THEN
       /\ last' = Out(rec, [Respond("assign", u, <<>>, 409, "numbers_taken") EXCEPT
                     !.conflicts = payConf])
       /\ UNCHANGED paidRows
     ELSE IF resvConf # {} THEN
       /\ last' = Out(rec, [Respond("assign", u, <<>>, 409, "numbers_reserved") EXCEPT
                     !.conflicts = resvConf])
       /\ UNCHANGED paidRows
     ELSE
       /\ paidRows' = paidRows \cup
            {[kind |-> "payment", user_id |-> u, draw_id |-> d, numbers |-> numSet,
              status |-> "approved"],
             [kind |-> "reservation", user_id |-> u, draw_id |-> d, numbers |-> numSet,
              status |-> "paid"]}
       /\ last' = Out(rec, [Respond("assign", u, <<>>, 201, "") EXCEPT !.numbers = numSet])

\* ------------------------------------------------------------ Spec
NumbersOfDraw(total) ==
  [n \in Slots |-> IF n < total THEN [status |-> "available", reservation_id |-> NULL]
                   ELSE NoRow]

IdleConc ==
  /\ sess = <<>>
  /\ rowLock = <<>>
  /\ undo = <<>>
  /\ pc = <<>>
  /\ loc = <<>>

Init ==
  /\ now = 0
  /\ \E total \in {FullCount - 1, FullCount} :
       /\ draws = [d \in Draws |-> [status |-> "open", total_numbers |-> total,
                                    closed_at |-> <<>>, autopay_ran_at |-> <<>>]]
       /\ numbers = [d \in Draws |-> NumbersOfDraw(total)]
  /\ reservations = [r \in ResIds |-> NoResv]
  /\ payments = [p \in PayIds |-> NoPay]
  /\ mp = [p \in PayIds |-> "none"]
  /\ cards = IdleCards
  /\ recon = IdleRecon
  /\ paidRows = {}
  /\ vouchers = <<[user_id |-> 2, draw_id |-> 1, remaining |-> 1]>>
  /\ autopay_runs = {}
  /\ last = NoResp
  /\ IdleConc

Next ==
  \/ \E u \in Users, req \in ReserveRequests : Reserve(u, req, FALSE)
  \/ cleanupExpire
  \/ cleanupFree
  \/ Tick
  \/ \E u \in Users, r \in ResIds : PixCheckout(u, r, FALSE)
  \/ \E id \in PayIds : MpApprove(id)
  \/ \E id \in PayIds : Webhook(id, FALSE)
  \/ \E u \in Callers, id \in PayIds : StatusPoll(u, id, FALSE)
  \/ \E u \in Callers, id \in PayIds : WebhookReplay(u, id, FALSE)
  \/ \E u \in Callers : Reconcile(u, FALSE)
  \/ \E u \in Users, d \in Draws, ns \in AssignRequests : AssignNumbers(u, d, ns, FALSE)

\* every handler of the ledger, one request at a time
Spec == Init /\ [][Next]_vars

\* the reservation manager with its responses kept in last
NextHold ==
  \/ \E u \in Users, req \in ReserveRequests : Reserve(u, req, TRUE)
  \/ cleanupExpire
  \/ cleanupFree
  \/ Tick
  \/ \E u \in Users, d \in Draws, req \in VoucherRequests :
        VoucherConsume(u, d, req, NULL, FALSE)
  \/ \E u \in Users, d \in Draws, ns \in AssignRequests : AssignNumbers(u, d, ns, FALSE)

SpecHold == Init /\ [][NextHold]_vars

\* voucher redemption over every small voucher table
VoucherTables ==
  UNION {[1 .. k -> [user_id : Users, draw_id : Draws, remaining : 0 .. MaxRemaining]] :
           k \in 0 .. MaxVouchers}

InitVoucher ==
  /\ now = 0
  /\ draws = [d \in Draws |-> [status |-> "open", total_numbers |-> FullCount,
                               closed_at |-> <<>>, autopay_ran_at |-> <<>>]]
  /\ numbers = [d \in Draws |-> NumbersOfDraw(FullCount)]
  /\ reservations = [r \in ResIds |-> NoResv]
  /\ payments = [p \in PayIds |-> NoPay]
  /\ mp = [p \in PayIds |-> "none"]
  /\ cards = IdleCards
  /\ recon = IdleRecon
  /\ paidRows = {}
  /\ vouchers \in VoucherTables
  /\ autopay_runs = {}
  /\ last = NoResp
  /\ IdleConc

NextVoucher ==
  \E u \in Users, d \in Draws, req \in VoucherRequests :
     VoucherConsume(u, d, req, NULL, TRUE)

SpecVoucher == InitVoucher /\ [][NextVoucher]_vars

\* autopay over every pair of card answers, next to reservations that age
InitAutopay ==
  /\ now = 0
  /\ draws = [d \in Draws |-> [status |-> "open", total_numbers |-> FullCount,
                               closed_at |-> <<>>, autopay_ran_at |-> <<>>]]
  /\ numbers = [d \in Draws |-> NumbersOfDraw(FullCount)]
  /\ reservations = [r \in ResIds |-> NoResv]
  /\ payments = [p \in PayIds |-> NoPay]
  /\ mp = [p \in PayIds |-> "none"]
  /\ cards \in [ProfileIds -> [answer : CardAnswers, approved : {0}, failed : {0}]]
  /\ recon = IdleRecon
  /\ paidRows = {}
  /\ vouchers = <<>>
  /\ autopay_runs = {}
  /\ last = NoResp
  /\ IdleConc

NextAutopay ==
  \/ \E n \in Slots : Reserve(AutopayProfiles[2].user_id, <<n>>, FALSE)
  \/ Tick
  \/ \E d \in Draws, o \in ProfileOrders, f \in {0} \cup ProfileIds :
        runAutopayForDraw(d, o, f, TRUE)
  \/ \E d \in Draws, force \in BOOLEAN, o \in ProfileOrders, f \in {0} \cup ProfileIds :
        ensureAutopayForDraw(d, force, o, f, TRUE)
  \/ \E force \in BOOLEAN, o \in ProfileOrders, f \in {0} \cup ProfileIds :
        runAutopayForOpenDraws(force, o, f, TRUE)

SpecAutopay == InitAutopay /\ [][NextAutopay]_vars

\* the sale of a draw slot by slot up to its closure, and the admin's reopening
NextAdmin ==
  \/ \E u \in Users, n \in Slots : Reserve(u, <<n>>, FALSE)
  \/ Tick
  \/ \E u \in Users, r \in ResIds : PixCheckout(u, r, FALSE)
  \/ \E id \in PayIds : MpApprove(id)
  \/ \E id \in PayIds : Webhook(id, FALSE)
  \/ \E d \in Draws, o \in ProfileOrders : AdminOpen(d, o, 0, FALSE)

SpecAdmin == Init /\ [][NextAdmin]_vars

\* ------------------------------------------- the pool behind query()
\* db/pg.js query(): every statement goes to pool.query(), which runs it on
\* whichever pooled connection is handed out; nothing pins the statements of
\* one handler to one connection.  A connection with no transaction open
\* commits each statement on its own.
Conns == 1 .. MaxConns
Handlers == {1, 2}

\* pg_advisory_xact_lock(911001), payments.js:30
AdvisoryKey == <<"advisory", 911001>>

RowKeys ==
  ({"numbers"} \X Slots) \cup ({"reservations"} \X ResIds) \cup
  ({"draws"} \X Draws) \cup ({"payments"} \X PayIds) \cup
  ({"vouchers"} \X (1 .. MaxVouchers)) \cup {AdvisoryKey}

\* the tables as last written, committed or not
Cur == [numbers |-> numbers[SetMax(Draws)], reservations |-> reservations,
        draws |-> draws, payments |-> payments, vouchers |-> vouchers]

\* a connection's record of the values its open transaction replaced;
\* status "-" (no user, for a voucher) marks a row it has not touched
NoUndo ==
  [numbers |-> [n \in Slots |-> [NoRow EXCEPT !.status = "-"]],
   reservations |-> [r \in ResIds |-> [NoResv EXCEPT !.status = "-"]],
   draws |-> [d \in Draws |-> [status |-> "-", total_numbers |-> 0,
                               closed_at |-> <<>>, autopay_ran_at |-> <<>>]],
   payments |-> [p \in PayIds |-> [NoPay EXCEPT !.status = "-"]],
   vouchers |-> [i \in 1 .. MaxVouchers |->
                   [user_id |-> NULL, draw_id |-> NULL, remaining |-> 0]]]

Untouched(tab, row) == IF tab = "vouchers" THEN row.user_id = NULL ELSE row.status = "-"

\* READ COMMITTED: what a statement on connection c reads; rows another
\* connection's open transaction wrote show their committed value
Vis(c) ==
  [tab \in DOMAIN Cur |->
     [i \in DOMAIN Cur[tab] |->
        IF \E c2 \in Conns \ {c} : ~Untouched(tab, undo[c2][tab][i])
        THEN undo[CHOOSE c2 \in Conns \ {c} : ~Untouched(tab, undo[c2][tab][i])][tab][i]
        ELSE Cur[tab][i]]]

\* the committed tables (what a connection outside the pool would read)
Committed == Vis(0)

\* a statement on connection c that locks the rows keys and leaves them as in
\* T; it waits while another connection's transaction holds one of them
DbApply(c, keys, T) ==
  LET put(tab) == [i \in DOMAIN Cur[tab] |->
                     IF <<tab, i>> \in keys THEN T[tab][i] ELSE Cur[tab][i]]
  IN
  /\ \A k \in keys : rowLock[k] \in {0, c}
  /\ numbers' = [numbers EXCEPT ![SetMax(Draws)] = put("numbers")]
  /\ reservations' = put("reservations")
  /\ draws' = put("draws")
  /\ payments' = put("payments")
  /\ vouchers' = put("vouchers")
  /\ IF sess[c]
     THEN /\ rowLock' = [k \in RowKeys |-> IF k \in keys THEN c ELSE rowLock[k]]
          /\ undo' = [undo EXCEPT ![c] =
               [tab \in DOMAIN Cur |->
                  [i \in DOMAIN Cur[tab] |->
                     IF <<tab, i>> \in keys /\ Untouched(tab, undo[c][tab][i])
                     THEN Cur[tab][i] ELSE undo[c][tab][i]]]]
     ELSE UNCHANGED <<rowLock, undo>>
  /\ UNCHANGED sess

\* BEGIN on connection c
DbBegin(c) ==
  /\ sess' = [sess EXCEPT ![c] = TRUE]
  /\ UNCHANGED <<numbers, reservations, draws, payments, vouchers, rowLock, undo>>

\* COMMIT (commit = TRUE) or ROLLBACK on connection c
DbEnd(c, commit) ==
  LET back(tab) == [i \in DOMAIN Cur[tab] |->
                      IF ~Untouched(tab, undo[c][tab][i]) THEN undo[c][tab][i]
                      ELSE Cur[tab][i]]
  IN
  IF sess[c]
  THEN /\ sess' = [sess EXCEPT ![c] = FALSE]
       /\ rowLock' = [k \in RowKeys |-> IF rowLock[k] = c THEN 0 ELSE rowLock[k]]
       /\ undo' = [undo EXCEPT ![c] = NoUndo]
       /\ IF commit
          THEN UNCHANGED <<numbers, reservations, draws, payments, vouchers>>
          ELSE /\ numbers' = [numbers EXCEPT ![SetMax(Draws)] = back("numbers")]
               /\ reservations' = back("reservations")
               /\ draws' = back("draws")
               /\ payments' = back("payments")
               /\ vouchers' = back("vouchers")
  ELSE UNCHANGED <<numbers, reservations, draws, payments, vouchers, sess, rowLock, undo>>

NumberKeys(nums) == {"numbers"} \X nums

Goto(h, label) == pc' = [pc EXCEPT ![h] = label]

\* what stays as it is in every statement step of a concurrent handler
Frame == UNCHANGED <<now, mp, cards, recon, paidRows, autopay_runs, last>>

\* ------------------- POST /api/reservations, one SQL statement per step
\* handler h serves user h; loc[h] holds nums, drawId, rows (the locked rows of
\* the first SELECT), taken (paidTaken), conflicts, rid and the response
NoLoc == [nums |-> {}, id |-> NULL, drawId |-> NULL,
          rows |-> [n \in Slots |-> NoRow], taken |-> {}, conflicts |-> {},
          rid |-> NULL, sold |-> 0, code |-> 0, error |-> "",
          vrows |-> <<>>, todo |-> {}, toConsume |-> 0,
          order |-> <<>>, k |-> 0, free |-> {}, prows |-> {}, runs |-> {},
          bought |-> {}, locked |-> NULL, closed |-> FALSE, opened |-> FALSE]

\* reservations.js:71-79
RsvDraw(h, c) ==
  /\ pc[h] = "draw"
  /\ IF OpenDraws(Vis(c).draws) = {}
     THEN /\ loc' = [loc EXCEPT ![h].code = 400, ![h].error = "no_open_draw"]
          /\ Goto(h, "done")
     ELSE /\ loc' = [loc EXCEPT ![h].drawId = SetMax(OpenDraws(Vis(c).draws))]
          /\ Goto(h, "begin")
  /\ UNCHANGED <<dbVars, sess, rowLock, undo>>
  /\ Frame

\* reservations.js:82
RsvBegin(h, c) ==
  /\ pc[h] = "begin"
  /\ DbBegin(c)
  /\ Goto(h, "check")
  /\ UNCHANGED loc
  /\ Frame

\* reservations.js:85-100: SELECT ... FOR UPDATE of the requested rows
RsvCheck(h, c) ==
  /\ pc[h] = "check"
  /\ DbApply(c, NumberKeys(loc[h].nums), Cur)
  /\ LET notFound == {n \in loc[h].nums : Cur.numbers[n].status = "absent"} IN
     IF notFound # {}
     THEN /\ loc' = [loc EXCEPT ![h].code = 400, ![h].error = "numbers_not_found"]
          /\ Goto(h, "rollback")
     ELSE /\ loc' = [loc EXCEPT ![h].rows =
                       [n \in Slots |-> IF n \in loc[h].nums THEN Cur.numbers[n]
                                        ELSE NoRow]]
          /\ Goto(h, "scan")
  /\ Frame

\* reservations.js:104-144: the lazy-expiry loop and the release of byResId
RsvScan(h, c) ==
  /\ pc[h] = "scan"
  /\ \E first \in FirstRowChoices(loc[h].rows, Vis(c).reservations, loc[h].nums, now) :
       LET read == {rid \in ResIds :
                      /\ Vis(c).reservations[rid].status # "none"
                      /\ \E n \in loc[h].nums :
                            /\ loc[h].rows[n].status = "reserved"
                            /\ loc[h].rows[n].reservation_id = rid}
           freed == {n \in {first[rid] : rid \in DOMAIN first} :
                       Cur.numbers[n].reservation_id \in DOMAIN first}
       IN DbApply(c, ({"reservations"} \X read) \cup NumberKeys(freed),
                  [Cur EXCEPT
                     !.reservations = ExpireReservations(Cur.reservations, DOMAIN first),
                     !.numbers = FreeRows(Cur.numbers, first)])
  /\ Goto(h, "pays")
  /\ UNCHANGED loc
  /\ Frame

\* reservations.js:147-157
RsvPays(h, c) ==
  /\ pc[h] = "pays"
  /\ loc' = [loc EXCEPT ![h].taken =
               paidTaken(Vis(c).payments, paidRows, loc[h].drawId)]
  /\ Goto(h, "after")
  /\ UNCHANGED <<dbVars, sess, rowLock, undo>>
  /\ Frame

\* reservations.js:160-179: the second SELECT ... FOR UPDATE and the conflicts
RsvAfter(h, c) ==
  /\ pc[h] = "after"
  /\ DbApply(c, NumberKeys(loc[h].nums), Cur)
  /\ LET conflicts == ReserveConflicts(Cur.numbers, loc[h].nums, loc[h].taken) IN
     IF conflicts # {}
     THEN /\ loc' = [loc EXCEPT ![h].conflicts = conflicts, ![h].code = 409,
                                ![h].error = "unavailable"]
          /\ Goto(h, "rollback")
     ELSE /\ UNCHANGED loc
          /\ Goto(h, "insert")
  /\ Frame

\* reservations.js:98, 177
RsvRollback(h, c) ==
  /\ pc[h] = "rollback"
  /\ DbEnd(c, FALSE)
  /\ Goto(h, "done")
  /\ UNCHANGED loc
  /\ Frame

\* reservations.js:182-189
RsvInsert(h, c) ==
  /\ pc[h] = "insert"
  /\ FreeResIds(reservations) # {}
  /\ LET reservationId == CHOOSE r \in FreeResIds(reservations) :
                             \A q \in FreeResIds(reservations) : r <= q
     IN
     /\ DbApply(c, {<<"reservations", reservationId>>},
                [Cur EXCEPT !.reservations[reservationId] =
                   [user_id |-> h, draw_id |-> loc[h].drawId, numbers |-> loc[h].nums,
                    status |-> "active", expires_at |-> now + ttlMin,
                    payment_id |-> NULL]])
     /\ loc' = [loc EXCEPT ![h].rid = reservationId]
  /\ Goto(h, "update")
  /\ Frame

\* reservations.js:191-198
RsvUpdate(h, c) ==
  /\ pc[h] = "update"
  /\ DbApply(c, NumberKeys(loc[h].nums),
             [Cur EXCEPT !.numbers =
                [n \in Slots |->
                   IF n \in loc[h].nums
                   THEN [status |-> "reserved", reservation_id |-> loc[h].rid]
                   ELSE Cur.numbers[n]]])
  /\ Goto(h, "commit")
  /\ UNCHANGED loc
  /\ Frame

\* reservations.js:200-215
RsvCommit(h, c) ==
  /\ pc[h] = "commit"
  /\ DbEnd(c, TRUE)
  /\ loc' = [loc EXCEPT ![h].code = 201]
  /\ Goto(h, "done")
  /\ Frame

IdlePool ==
  /\ sess = [c \in Conns |-> FALSE]
  /\ rowLock = [k \in RowKeys |-> 0]
  /\ undo = [c \in Conns |-> NoUndo]

\* two reserve requests arrive for the open draw, every slot available
InitReserve ==
  /\ now = 0
  /\ draws = [d \in Draws |-> [status |-> "open", total_numbers |-> FullCount,
                               closed_at |-> <<>>, autopay_ran_at |-> <<>>]]
  /\ numbers = [d \in Draws |-> NumbersOfDraw(FullCount)]
  /\ reservations = [r \in ResIds |-> NoResv]
  /\ payments = [p \in PayIds |-> NoPay]
  /\ mp = [p \in PayIds |-> "none"]
  /\ cards = IdleCards
  /\ recon = IdleRecon
  /\ paidRows = {}
  /\ vouchers = <<>>
  /\ autopay_runs = {}
  /\ last = NoResp
  /\ IdlePool
  /\ pc = [h \in Handlers |-> "draw"]
  /\ \E req \in [Handlers -> AssignRequests] :
        loc = [h \in Handlers |-> [NoLoc EXCEPT !.nums = req[h]]]

NextReserve ==
  \E h \in Handlers, c \in Conns :
    \/ RsvDraw(h, c)
    \/ RsvBegin(h, c)
    \/ RsvCheck(h, c)
    \/ RsvScan(h, c)
    \/ RsvPays(h, c)
    \/ RsvAfter(h, c)
    \/ RsvRollback(h, c)
    \/ RsvInsert(h, c)
    \/ RsvUpdate(h, c)
    \/ RsvCommit(h, c)

SpecReserve == InitReserve /\ [][NextReserve]_vars

\* ---------------- POST /api/payments/webhook, one SQL statement per step
\* handler h has been told by the provider that payment loc[h].id is approved

\* payments.js:345-351
WhStore(h, c) ==
  /\ pc[h] = "store"
  /\ DbApply(c, {<<"payments", loc[h].id>>},
             [Cur EXCEPT !.payments[loc[h].id].status = "approved"])
  /\ Goto(h, "load")
  /\ UNCHANGED loc
  /\ Frame

\* payments.js:354-356
WhLoad(h, c) ==
  /\ pc[h] = "load"
  /\ IF Vis(c).payments[loc[h].id].status = "none"
     THEN /\ Goto(h, "done")
          /\ UNCHANGED loc
     ELSE /\ loc' = [loc EXCEPT ![h].drawId = Vis(c).payments[loc[h].id].draw_id,
                                ![h].nums = Vis(c).payments[loc[h].id].numbers]
          /\ Goto(h, "sold")
  /\ UNCHANGED <<dbVars, sess, rowLock, undo>>
  /\ Frame

\* payments.js:74-81, first statement of settleApprovedPayment
WhSold(h, c) ==
  /\ pc[h] = "sold"
  /\ LET hit == {n \in loc[h].nums : Vis(c).numbers[n].status # "absent"} IN
     DbApply(c, NumberKeys(hit),
             [Cur EXCEPT !.numbers =
                [n \in Slots |-> IF n \in hit
                                 THEN [status |-> "sold", reservation_id |-> NULL]
                                 ELSE Cur.numbers[n]]])
  /\ Goto(h, "paid")
  /\ UNCHANGED loc
  /\ Frame

\* payments.js:83-88, second statement of settleApprovedPayment
WhPaid(h, c) ==
  /\ pc[h] = "paid"
  /\ LET hit == {r \in ResIds : /\ Vis(c).reservations[r].status # "none"
                                /\ Vis(c).reservations[r].payment_id = loc[h].id}
     IN
     DbApply(c, {"reservations"} \X hit,
             [Cur EXCEPT !.reservations =
                [r \in ResIds |-> IF r \in hit
                                  THEN [Cur.reservations[r] EXCEPT !.status = "paid"]
                                  ELSE Cur.reservations[r]]])
  /\ Goto(h, "begin")
  /\ UNCHANGED loc
  /\ Frame

\* payments.js:28
FinBegin(h, c) ==
  /\ pc[h] = "begin"
  /\ DbBegin(c)
  /\ Goto(h, "advisory")
  /\ UNCHANGED loc
  /\ Frame

\* payments.js:30
FinAdvisory(h, c) ==
  /\ pc[h] = "advisory"
  /\ DbApply(c, {AdvisoryKey}, Cur)
  /\ Goto(h, "draw")
  /\ UNCHANGED loc
  /\ Frame

\* payments.js:32-42
FinDraw(h, c) ==
  /\ pc[h] = "draw"
  /\ IF loc[h].drawId \in Draws
     THEN /\ DbApply(c, {<<"draws", loc[h].drawId>>}, Cur)
          /\ Goto(h, "count")
     ELSE /\ DbApply(c, {}, Cur)
          /\ Goto(h, "rollback")
  /\ UNCHANGED loc
  /\ Frame

\* payments.js:44-52
FinCount(h, c) ==
  /\ pc[h] = "count"
  /\ LET sold == Cardinality({n \in Slots : Vis(c).numbers[n].status = "sold"}) IN
     /\ loc' = [loc EXCEPT ![h].sold = sold]
     /\ Goto(h, IF sold = FullCount THEN "close" ELSE "commit")
  /\ UNCHANGED <<dbVars, sess, rowLock, undo>>
  /\ Frame

\* payments.js:53-59
FinClose(h, c) ==
  /\ pc[h] = "close"
  /\ DbApply(c, {<<"draws", loc[h].drawId>>},
             [Cur EXCEPT !.draws[loc[h].drawId] =
                [@ EXCEPT !.status = "closed",
                          !.closed_at = IF @ = <<>> THEN <<now>> ELSE @]])
  /\ Goto(h, "commit")
  /\ UNCHANGED loc
  /\ Frame

\* payments.js:39 and 66: the ROLLBACK of the early return, or the COMMIT
FinCommit(h, c) ==
  /\ pc[h] \in {"commit", "rollback"}
  /\ DbEnd(c, pc[h] = "commit")
  /\ loc' = [loc EXCEPT ![h].code = 200]
  /\ Goto(h, "done")
  /\ Frame

\* the checked-out reservations two final webhooks are about: either one
\* payment for every slot delivered twice, or two payments sharing the slots
FinalPayments ==
  {<<[user_id |-> 1, draw_id |-> 1, numbers |-> Slots, status |-> "pending",
      created_at |-> 0], NoPay>>}
  \cup
  {<<[user_id |-> 1, draw_id |-> 1, numbers |-> S, status |-> "pending",
      created_at |-> 0],
     [user_id |-> 2, draw_id |-> 1, numbers |-> Slots \ S, status |-> "pending",
      created_at |-> 0]>> : S \in (SUBSET Slots) \ {{}, Slots}}

InitFinalize ==
  /\ now = 0
  /\ draws = [d \in Draws |-> [status |-> "open", total_numbers |-> FullCount,
                               closed_at |-> <<>>, autopay_ran_at |-> <<>>]]
  /\ \E ps \in FinalPayments :
       /\ payments = [p \in PayIds |-> IF p <= 2 THEN ps[p] ELSE NoPay]
       /\ reservations =
            [r \in ResIds |->
               IF r <= 2 /\ ps[r].status # "none"
               THEN [user_id |-> ps[r].user_id, draw_id |-> 1, numbers |-> ps[r].numbers,
                     status |-> "active", expires_at |-> ttlMin, payment_id |-> r]
               ELSE NoResv]
       /\ numbers = [d \in Draws |-> [n \in Slots |->
            [status |-> "reserved",
             reservation_id |-> IF n \in ps[1].numbers THEN 1 ELSE 2]]]
       /\ mp = [p \in PayIds |-> IF p <= 2 /\ ps[p].status # "none" THEN "approved"
                                 ELSE "none"]
       /\ loc = [h \in Handlers |->
                   [NoLoc EXCEPT !.id = IF ps[h].status # "none" THEN h ELSE 1]]
  /\ paidRows = {}
  /\ vouchers = <<>>
  /\ cards = IdleCards
  /\ recon = IdleRecon
  /\ autopay_runs = {}
  /\ last = NoResp
  /\ IdlePool
  /\ pc = [h \in Handlers |-> "store"]

NextFinalize ==
  \E h \in Handlers, c \in Conns :
    \/ WhStore(h, c)
    \/ WhLoad(h, c)
    \/ WhSold(h, c)
    \/ WhPaid(h, c)
    \/ FinBegin(h, c)
    \/ FinAdvisory(h, c)
    \/ FinDraw(h, c)
    \/ FinCount(h, c)
    \/ FinClose(h, c)
    \/ FinCommit(h, c)

SpecFinalize == InitFinalize /\ [][NextFinalize]_vars

\* ----------------- POST /api/vouchers/consume, one SQL statement per step
\* both handlers serve the same user, who sends loc[h].nums without a
\* reservation id; every statement goes through query()
RedeemUser == SetMax(Users)

\* vouchers.js:127
VcBegin(h, c) ==
  /\ pc[h] = "begin"
  /\ DbBegin(c)
  /\ Goto(h, "conflicts")
  /\ UNCHANGED loc
  /\ Frame

\* vouchers.js:159-220: the sold rows, the other users' reservations (FOR
\* UPDATE) and the reserved rows of the request
VcConflicts(h, c) ==
  /\ pc[h] = "conflicts"
  /\ DbApply(c, {"reservations"} \X
                  {r \in ResIds :
                     /\ Vis(c).reservations[r].draw_id = loc[h].drawId
                     /\ Vis(c).reservations[r].user_id # RedeemUser
                     /\ Vis(c).reservations[r].status \in
                           {"active", "reserved", "pending", "await"}
                     /\ Vis(c).reservations[r].numbers \cap loc[h].nums # {}},
             Cur)
  /\ LET conflicts == VoucherConflicts(Vis(c).numbers, Vis(c).reservations, loc[h].nums,
                                       RedeemUser, loc[h].drawId, NULL)
     IN IF conflicts # {}
        THEN /\ loc' = [loc EXCEPT ![h].conflicts = conflicts, ![h].code = 409,
                                   ![h].error = "numbers_conflict"]
             /\ Goto(h, "rollback")
        ELSE /\ UNCHANGED loc
             /\ Goto(h, "vouchers")
  /\ Frame

\* vouchers.js:222-237: SELECT ... FOR UPDATE SKIP LOCKED of the user's rows
\* with balance left, oldest first, and the balance test
VcVouchers(h, c) ==
  /\ pc[h] = "vouchers"
  /\ LET free == [i \in DOMAIN vouchers |->
                   IF rowLock[<<"vouchers", i>>] \in {0, c} THEN vouchers[i]
                   ELSE [vouchers[i] EXCEPT !.remaining = 0]]
         ids == VoucherRows(free, RedeemUser, loc[h].drawId)
         vrows == [k \in 1 .. Len(ids) |->
                     [id |-> ids[k], remaining |-> vouchers[ids[k]].remaining]]
         totalRemaining == SeqSum([k \in 1 .. Len(vrows) |-> vrows[k].remaining])
     IN
     /\ DbApply(c, {"vouchers"} \X Range(ids), Cur)
     /\ IF totalRemaining < Cardinality(loc[h].nums)
        THEN /\ loc' = [loc EXCEPT ![h].code = 409, ![h].error = "not_enough_vouchers"]
             /\ Goto(h, "rollback")
        ELSE /\ loc' = [loc EXCEPT ![h].vrows = vrows, ![h].todo = loc[h].nums,
                                   ![h].toConsume = Cardinality(loc[h].nums)]
             /\ Goto(h, "sell")
  /\ Frame

\* vouchers.js:243-260: one upsert of the loop, for the next number of nums
VcSell(h, c) ==
  /\ pc[h] = "sell"
  /\ LET n == CHOOSE m \in loc[h].todo : \A q \in loc[h].todo : m <= q IN
     /\ DbApply(c, IF Cur.numbers[n].status \in {"absent", "available", "reserved"}
                   THEN NumberKeys({n}) ELSE {},
                [Cur EXCEPT !.numbers[n].status = "sold"])
     /\ IF Cur.numbers[n].status \notin {"absent", "available", "reserved"}
        THEN /\ loc' = [loc EXCEPT ![h].conflicts = {n}, ![h].code = 409,
                                   ![h].error = "numbers_conflict"]
             /\ Goto(h, "rollback")
        ELSE /\ loc' = [loc EXCEPT ![h].todo = @ \ {n}]
             /\ Goto(h, IF loc[h].todo = {n} THEN "debit" ELSE "sell")
  /\ Frame

\* vouchers.js:262-278: one UPDATE of the debit loop, for the next row of vrows
VcDebit(h, c) ==
  /\ pc[h] = "debit"
  /\ IF loc[h].vrows = <<>> \/ loc[h].toConsume <= 0
     THEN /\ DbApply(c, {}, Cur)
          /\ UNCHANGED loc
          /\ Goto(h, "record")
     ELSE LET v == Head(loc[h].vrows)
              take == Min(v.remaining, loc[h].toConsume)
          IN
          /\ DbApply(c, {<<"vouchers", v.id>>},
                     [Cur EXCEPT !.vouchers[v.id].remaining = @ - take])
          /\ loc' = [loc EXCEPT ![h].vrows = Tail(@), ![h].toConsume = @ - take]
          /\ Goto(h, "debit")
  /\ UNCHANGED paidRows
  /\ UNCHANGED <<now, mp, cards, recon, autopay_runs, last>>

\* vouchers.js:291-331: the payment row kept for the history
VcRecord(h, c) ==
  /\ pc[h] = "record"
  /\ paidRows' = paidRows \cup
       {[kind |-> "payment", user_id |-> RedeemUser, draw_id |-> loc[h].drawId,
         numbers |-> loc[h].nums, status |-> "paid"]}
  /\ Goto(h, "commit")
  /\ UNCHANGED <<draws, numbers, reservations, payments, vouchers, autopay_runs>>
  /\ UNCHANGED <<now, mp, cards, recon, last, sess, rowLock, undo, loc>>

\* vouchers.js:188, 235, 257: ROLLBACK and the 409; 333-334: COMMIT and the answer
VcEnd(h, c) ==
  /\ pc[h] \in {"commit", "rollback"}
  /\ DbEnd(c, pc[h] = "commit")
  /\ loc' = IF pc[h] = "commit" THEN [loc EXCEPT ![h].code = 200] ELSE loc
  /\ Goto(h, "done")
  /\ Frame

\* the balance the user holds before the two redemptions
RedeemBalance == FullCount - 1

\* two redemptions of one user arrive for the open draw, every slot available,
\* the user's balance spread over one or more voucher rows
InitRedeem ==
  /\ now = 0
  /\ draws = [d \in Draws |-> [status |-> "open", total_numbers |-> FullCount,
                               closed_at |-> <<>>, autopay_ran_at |-> <<>>]]
  /\ numbers = [d \in Draws |-> NumbersOfDraw(FullCount)]
  /\ reservations = [r \in ResIds |-> NoResv]
  /\ payments = [p \in PayIds |-> NoPay]
  /\ mp = [p \in PayIds |-> "none"]
  /\ cards = IdleCards
  /\ recon = IdleRecon
  /\ paidRows = {}
  /\ vouchers \in {t \in VoucherTables :
                     /\ t # <<>>
                     /\ \A i \in DOMAIN t : t[i].user_id = RedeemUser /\ t[i].draw_id = TheDraw
                     /\ SeqSum([i \in DOMAIN t |-> t[i].remaining]) = RedeemBalance}
  /\ autopay_runs = {}
  /\ last = NoResp
  /\ IdlePool
  /\ pc = [h \in Handlers |-> "begin"]
  /\ \E req \in [Handlers -> AssignRequests] :
        loc = [h \in Handlers |-> [NoLoc EXCEPT !.nums = req[h], !.drawId = TheDraw]]

NextRedeem ==
  \E h \in Handlers, c \in Conns :
    \/ VcBegin(h, c)
    \/ VcConflicts(h, c)
    \/ VcVouchers(h, c)
    \/ VcSell(h, c)
    \/ VcDebit(h, c)
    \/ VcRecord(h, c)
    \/ VcEnd(h, c)

SpecRedeem == InitRedeem /\ [][NextRedeem]_vars

\* ------- runAutopayForDraw beside POST /api/reservations, statement by statement
\* autopayRunner.js:136: the run holds one client of the pool from BEGIN to
\* COMMIT; query() of the reserve route gets the connections that are left
AutopayHandler == SetMax(Handlers)
AutopayConn == SetMax(Conns)

\* the profile the loop of autopayRunner.js:190 is at
ApProfile(h) == AutopayProfiles[loc[h].order[loc[h].k]]

\* autopayRunner.js:190-198: the loop moves on to profile k of its order; a
\* profile with no favourite in range is skipped, past the last profile the
\* run goes on to line 308
ApTurn(L, k) ==
  LET rest == {j \in k .. Len(L.order) : Wants(AutopayProfiles[L.order[j]]) # <<>>} IN
  IF rest = {}
  THEN [pc |-> "mark", loc |-> [L EXCEPT !.k = Len(L.order) + 1, !.todo = {}, !.free = {}]]
  ELSE LET j == CHOOSE i \in rest : \A q \in rest : i <= q IN
       [pc |-> "free",
        loc |-> [L EXCEPT !.k = j, !.todo = Range(Wants(AutopayProfiles[L.order[j]])),
                          !.free = {}]]

\* autopayRunner.js:140
ApBegin(h, c) ==
  /\ pc[h] = "begin"
  /\ DbBegin(c)
  /\ Goto(h, "lock")
  /\ UNCHANGED loc
  /\ Frame

\* autopayRunner.js:144-168: SELECT ... FOR UPDATE of the draw and its guards
ApLock(h, c) ==
  /\ pc[h] = "lock"
  /\ DbApply(c, {<<"draws", loc[h].drawId>>}, Cur)
  /\ IF Cur.draws[loc[h].drawId].status # "open"
     THEN /\ loc' = [loc EXCEPT ![h].code = 500, ![h].error = "draw_not_open"]
          /\ Goto(h, "rollback")
     ELSE IF Cur.draws[loc[h].drawId].autopay_ran_at # <<>>
     THEN /\ loc' = [loc EXCEPT ![h].code = 500, ![h].error = "autopay_already_ran"]
          /\ Goto(h, "rollback")
     ELSE /\ loc' = [loc EXCEPT ![h] = ApTurn(loc[h], 1).loc]
          /\ pc' = [pc EXCEPT ![h] = ApTurn(loc[h], 1).pc]
  /\ Frame

\* autopayRunner.js:201-211: one call of isNumberFree, the least favourite not
\* asked about yet; a profile with nothing free is skipped
ApFree(h, c) ==
  /\ pc[h] = "free"
  /\ LET n == CHOOSE m \in loc[h].todo : \A q \in loc[h].todo : m <= q
         isFree == isNumberFree(Vis(c).payments, paidRows \cup loc[h].prows,
                                Vis(c).reservations, loc[h].drawId, n)
         L1 == [loc[h] EXCEPT !.todo = @ \ {n},
                              !.free = IF isFree THEN @ \cup {n} ELSE @]
     IN
     IF L1.todo # {} THEN /\ loc' = [loc EXCEPT ![h] = L1]
                          /\ UNCHANGED pc
     ELSE IF L1.free = {} THEN /\ loc' = [loc EXCEPT ![h] = ApTurn(L1, L1.k + 1).loc]
                               /\ pc' = [pc EXCEPT ![h] = ApTurn(L1, L1.k + 1).pc]
     ELSE /\ loc' = [loc EXCEPT ![h] = L1]
          /\ Goto(h, "buy")
  /\ UNCHANGED <<dbVars, sess, rowLock, undo>>
  /\ Frame

\* autopayRunner.js:215-283: the charge of the free favourites; refused or not
\* approved, an audit row and the next profile; approved, the payment, the paid
\* reservation, the UPDATE that marks the numbers sold and the audit row
ApBuy(h, c) ==
  /\ pc[h] = "buy"
  /\ LET p == ApProfile(h)
         ch == mpChargeCard(cards[p.id].answer)
         audit(st, err, bought) ==
           [autopay_id |-> p.id, user_id |-> p.user_id, draw_id |-> loc[h].drawId,
            tried_numbers |-> loc[h].free, bought_numbers |-> bought,
            status |-> st, error |-> err]
         turn(L) == ApTurn(L, L.k + 1)
     IN
     /\ cards[p.id].approved + cards[p.id].failed < MaxCharges
     /\ cards' = [cards EXCEPT ![p.id] = Charged(@, ch)]
     /\ IF ch.threw \/ ch.status # "approved"
        THEN LET err == IF ch.threw /\ requiresCVV(ch) THEN "security_code_required"
                        ELSE IF ch.threw THEN ch.message ELSE "not_approved"
                 L1 == [loc[h] EXCEPT !.runs = @ \cup {audit("error", err, {})}]
             IN /\ loc' = [loc EXCEPT ![h] = turn(L1).loc]
                /\ pc' = [pc EXCEPT ![h] = turn(L1).pc]
                /\ UNCHANGED <<draws, numbers, reservations, payments, vouchers,
                               sess, rowLock, undo>>
        ELSE LET L1 == [loc[h] EXCEPT
                          !.runs = @ \cup {audit("ok", "", loc[h].free)},
                          !.prows = @ \cup
                            {[kind |-> "payment", user_id |-> p.user_id,
                              draw_id |-> loc[h].drawId, numbers |-> loc[h].free,
                              status |-> "approved"],
                             [kind |-> "reservation", user_id |-> p.user_id,
                              draw_id |-> loc[h].drawId, numbers |-> loc[h].free,
                              status |-> "paid"]},
                          !.bought = @ \cup loc[h].free]
                 hit == {n \in loc[h].free : Cur.numbers[n].status # "absent"}
             IN /\ DbApply(c, NumberKeys(hit),
                           [Cur EXCEPT !.numbers =
                              [n \in Slots |->
                                 IF n \in hit
                                 THEN [status |-> "sold", reservation_id |-> AutopayResId]
                                 ELSE Cur.numbers[n]]])
                /\ loc' = [loc EXCEPT ![h] = turn(L1).loc]
                /\ pc' = [pc EXCEPT ![h] = turn(L1).pc]
  /\ UNCHANGED <<now, mp, recon, paidRows, autopay_runs, last>>

\* autopayRunner.js:308-311
ApMark(h, c) ==
  /\ pc[h] = "mark"
  /\ DbApply(c, {<<"draws", loc[h].drawId>>},
             [Cur EXCEPT !.draws[loc[h].drawId].autopay_ran_at = <<now>>])
  /\ Goto(h, "commit")
  /\ UNCHANGED loc
  /\ Frame

\* autopayRunner.js:313-317: COMMIT publishes what the run inserted;
\* 152, 158, 163: ROLLBACK after a guard
ApEnd(h, c) ==
  /\ pc[h] \in {"commit", "rollback"}
  /\ DbEnd(c, pc[h] = "commit")
  /\ IF pc[h] = "commit"
     THEN /\ paidRows' = paidRows \cup loc[h].prows
          /\ autopay_runs' = autopay_runs \cup loc[h].runs
          /\ loc' = [loc EXCEPT ![h].code = 200]
     ELSE UNCHANGED <<paidRows, autopay_runs, loc>>
  /\ Goto(h, "done")
  /\ UNCHANGED <<now, mp, cards, recon, last>>

\* a reserve request arrives while an autopay run starts on the open draw
InitAutoRace ==
  /\ now = 0
  /\ draws \in [Draws -> [status : {"open"}, total_numbers : {FullCount},
                          closed_at : {<<>>}, autopay_ran_at : {<<>>, <<0>>}]]
  /\ numbers = [d \in Draws |-> NumbersOfDraw(FullCount)]
  /\ reservations = [r \in ResIds |-> NoResv]
  /\ payments = [p \in PayIds |-> NoPay]
  /\ mp = [p \in PayIds |-> "none"]
  /\ cards \in [ProfileIds -> [answer : CardAnswers, approved : {0}, failed : {0}]]
  /\ recon = IdleRecon
  /\ paidRows = {}
  /\ vouchers = <<>>
  /\ autopay_runs = {}
  /\ last = NoResp
  /\ IdlePool
  /\ pc = [h \in Handlers |-> IF h = AutopayHandler THEN "begin" ELSE "draw"]
  /\ \E req \in AssignRequests, o \in ProfileOrders :
        loc = [h \in Handlers |->
                 IF h = AutopayHandler
                 THEN [NoLoc EXCEPT !.drawId = TheDraw, !.order = o]
                 ELSE [NoLoc EXCEPT !.nums = req]]

NextAutoRace ==
  \/ \E h \in Handlers \ {AutopayHandler}, c \in Conns \ {AutopayConn} :
       \/ RsvDraw(h, c)
       \/ RsvBegin(h, c)
       \/ RsvCheck(h, c)
       \/ RsvScan(h, c)
       \/ RsvPays(h, c)
       \/ RsvAfter(h, c)
       \/ RsvRollback(h, c)
       \/ RsvInsert(h, c)
       \/ RsvUpdate(h, c)
       \/ RsvCommit(h, c)
  \/ \E h \in {AutopayHandler}, c \in {AutopayConn} :
       \/ ApBegin(h, c)
       \/ ApLock(h, c)
       \/ ApFree(h, c)
       \/ ApBuy(h, c)
       \/ ApMark(h, c)
       \/ ApEnd(h, c)

SpecAutoRace == InitAutoRace /\ [][NextAutoRace]_vars

\* -------- POST /api/reservations beside the webhook of an approved payment
\* the handler the provider's notification is served by; the other one serves
\* the reserve request
WebhookHandler == SetMax(Handlers)

\* a reservation of the last user, checked out and approved at the provider,
\* holds some slots; its hold has lapsed or not when the other user's reserve
\* request and the provider's notification arrive
InitSettleRace ==
  /\ now \in {0, ttlMin}
  /\ draws = [d \in Draws |-> [status |-> "open", total_numbers |-> FullCount,
                               closed_at |-> <<>>, autopay_ran_at |-> <<>>]]
  /\ \E S \in AssignRequests :
       /\ payments = [p \in PayIds |->
            IF p = 1 THEN [user_id |-> SetMax(Users), draw_id |-> TheDraw,
                           numbers |-> S, status |-> "pending", created_at |-> 0]
            ELSE NoPay]
       /\ reservations = [r \in ResIds |->
            IF r = 1 THEN [user_id |-> SetMax(Users), draw_id |-> TheDraw,
                           numbers |-> S, status |-> "active", expires_at |-> ttlMin,
                           payment_id |-> 1]
            ELSE NoResv]
       /\ numbers = [d \in Draws |-> [n \in Slots |->
            IF n \in S THEN [status |-> "reserved", reservation_id |-> 1]
            ELSE [status |-> "available", reservation_id |-> NULL]]]
  /\ mp = [p \in PayIds |-> IF p = 1 THEN "approved" ELSE "none"]
  /\ cards = IdleCards
  /\ recon = IdleRecon
  /\ paidRows = {}
  /\ vouchers = <<>>
  /\ autopay_runs = {}
  /\ last = NoResp
  /\ IdlePool
  /\ pc = [h \in Handlers |-> IF h = WebhookHandler THEN "store" ELSE "draw"]
  /\ \E req \in AssignRequests :
        loc = [h \in Handlers |->
                 IF h = WebhookHandler THEN [NoLoc EXCEPT !.id = 1]
                 ELSE [NoLoc EXCEPT !.nums = req]]

NextSettleRace ==
  \/ \E h \in Handlers \ {WebhookHandler}, c \in Conns :
       \/ RsvDraw(h, c)
       \/ RsvBegin(h, c)
       \/ RsvCheck(h, c)
       \/ RsvScan(h, c)
       \/ RsvPays(h, c)
       \/ RsvAfter(h, c)
       \/ RsvRollback(h, c)
       \/ RsvInsert(h, c)
       \/ RsvUpdate(h, c)
       \/ RsvCommit(h, c)
  \/ \E h \in {WebhookHandler}, c \in Conns :
       \/ WhStore(h, c)
       \/ WhLoad(h, c)
       \/ WhSold(h, c)
       \/ WhPaid(h, c)
       \/ FinBegin(h, c)
       \/ FinAdvisory(h, c)
       \/ FinDraw(h, c)
       \/ FinCount(h, c)
       \/ FinClose(h, c)
       \/ FinCommit(h, c)

SpecSettleRace == InitSettleRace /\ [][NextSettleRace]_vars

\* ---- POST /api/infoproducts/:idOrSku/ensure-open-draw and POST
\* /api/purchases/confirm for one product, one SQL statement per step.
\* Here draws holds the committed draws of the product in id order and numbers
\* the slot rows of each; what a request's open transaction has written and
\* not committed is kept in its loc (closed, opened), and loc[h].locked is the
\* draw row its SELECT ... FOR UPDATE holds.

\* the open draws of the product, committed
OpenOfProduct == {d \in DOMAIN draws : draws[d].status = "open"}

\* infoproducts.js:410-417
UsedCount(d) ==
  Cardinality({n \in Slots : numbers[d][n].status \in {"reserved", "taken", "sold"}})

NewDraw == [status |-> "open", total_numbers |-> FullCount,
            closed_at |-> <<>>, autopay_ran_at |-> <<>>]

\* infoproducts.js:371-406: BEGIN on the request's client and the SELECT of the
\* newest open draw FOR UPDATE, which waits while another request holds the row
EnsSelect(h) ==
  /\ pc[h] = "ensure"
  /\ IF OpenOfProduct = {}
     THEN /\ loc' = [loc EXCEPT ![h].drawId = NULL]
          /\ Goto(h, "open")
     ELSE /\ \A h2 \in Handlers \ {h} : loc[h2].locked # SetMax(OpenOfProduct)
          /\ loc' = [loc EXCEPT ![h].drawId = SetMax(OpenOfProduct),
                                ![h].locked = SetMax(OpenOfProduct)]
          /\ Goto(h, "count")
  /\ UNCHANGED <<dbVars, sess, rowLock, undo>>
  /\ Frame

\* infoproducts.js:409-423: a draw with every number used is closed
EnsCount(h) ==
  /\ pc[h] = "count"
  /\ IF UsedCount(loc[h].drawId) >= draws[loc[h].drawId].total_numbers
     THEN /\ loc' = [loc EXCEPT ![h].closed = TRUE, ![h].drawId = NULL]
          /\ Goto(h, "open")
     ELSE /\ UNCHANGED loc
          /\ Goto(h, "commit")
  /\ UNCHANGED <<dbVars, sess, rowLock, undo>>
  /\ Frame

\* infoproducts.js:425-445: INSERT of the new open draw and of its numbers
EnsInsert(h) ==
  /\ pc[h] = "open"
  /\ loc' = [loc EXCEPT ![h].opened = TRUE]
  /\ Goto(h, "commit")
  /\ UNCHANGED <<dbVars, sess, rowLock, undo>>
  /\ Frame

\* infoproducts.js:447-448: COMMIT publishes the close and the new draw and
\* releases the row; the response names the draw
EnsCommit(h) ==
  /\ pc[h] = "commit"
  /\ LET closed == IF loc[h].closed
                   THEN [draws EXCEPT ![loc[h].locked] =
                           [@ EXCEPT !.status = "closed", !.closed_at = <<now>>]]
                   ELSE draws
     IN
     /\ draws' = IF loc[h].opened THEN Append(closed, NewDraw) ELSE closed
     /\ numbers' = IF loc[h].opened THEN Append(numbers, NumbersOfDraw(FullCount))
                   ELSE numbers
     /\ loc' = [loc EXCEPT ![h].locked = NULL, ![h].code = 200,
                           ![h].drawId = IF loc[h].opened THEN Len(draws) + 1 ELSE @]
  /\ Goto(h, "done")
  /\ UNCHANGED <<reservations, payments, paidRows, vouchers, autopay_runs,
                 sess, rowLock, undo>>
  /\ Frame

\* purchases.js:23-41: begin, the upsert of the purchase and the SELECT of the
\* newest open draw, which takes no lock
CfSelect(h) ==
  /\ pc[h] = "confirm"
  /\ IF OpenOfProduct = {}
     THEN /\ loc' = [loc EXCEPT ![h].drawId = NULL]
          /\ Goto(h, "cf_open")
     ELSE /\ loc' = [loc EXCEPT ![h].drawId = SetMax(OpenOfProduct)]
          /\ Goto(h, "cf_commit")
  /\ UNCHANGED <<dbVars, sess, rowLock, undo>>
  /\ Frame

\* purchases.js:43-50: INSERT of an open draw (no numbers).  query() hands the
\* statement to any pooled connection: on one without the request's begin the
\* row is committed at once (auto), otherwise at the commit
CfInsert(h, auto) ==
  /\ pc[h] = "cf_open"
  /\ IF auto
     THEN /\ draws' = Append(draws, NewDraw)
          /\ numbers' = Append(numbers, NumbersOfDraw(0))
          /\ loc' = [loc EXCEPT ![h].drawId = Len(draws) + 1]
     ELSE /\ loc' = [loc EXCEPT ![h].opened = TRUE]
          /\ UNCHANGED <<draws, numbers>>
  /\ Goto(h, "cf_commit")
  /\ UNCHANGED <<reservations, payments, paidRows, vouchers, autopay_runs,
                 sess, rowLock, undo>>
  /\ Frame

\* purchases.js:53-66: the purchase is tied to the draw, one voucher is issued
\* and the commit publishes what the request wrote
CfCommit(h) ==
  /\ pc[h] = "cf_commit"
  /\ Len(vouchers) < MaxVouchers
  /\ LET drawId == IF loc[h].opened THEN Len(draws) + 1 ELSE loc[h].drawId IN
     /\ draws' = IF loc[h].opened THEN Append(draws, NewDraw) ELSE draws
     /\ numbers' = IF loc[h].opened THEN Append(numbers, NumbersOfDraw(0)) ELSE numbers
     /\ vouchers' = Append(vouchers, [user_id |-> h, draw_id |-> drawId, remaining |-> 1])
     /\ loc' = [loc EXCEPT ![h].drawId = drawId, ![h].code = 200]
  /\ Goto(h, "done")
  /\ UNCHANGED <<reservations, payments, paidRows, autopay_runs, sess, rowLock, undo>>
  /\ Frame

\* the product has no draw yet, or one draw: open with numbers left, open with
\* every number sold, or closed; two requests arrive, each of either kind
InitEnsure ==
  /\ now \in Times
  /\ \E k \in {"none", "open", "full", "closed"} :
       /\ draws = IF k = "none" THEN <<>>
                  ELSE IF k = "closed"
                  THEN <<[NewDraw EXCEPT !.status = "closed", !.closed_at = <<0>>]>>
                  ELSE <<NewDraw>>
       /\ numbers = IF k = "none" THEN <<>>
                    ELSE IF k = "open" THEN <<NumbersOfDraw(FullCount)>>
                    ELSE <<[n \in Slots |-> [status |-> "sold", reservation_id |-> NULL]]>>
  /\ reservations = [r \in ResIds |-> NoResv]
  /\ payments = [p \in PayIds |-> NoPay]
  /\ mp = [p \in PayIds |-> "none"]
  /\ cards = IdleCards
  /\ recon = IdleRecon
  /\ paidRows = {}
  /\ vouchers = <<>>
  /\ autopay_runs = {}
  /\ last = NoResp
  /\ IdlePool
  /\ pc \in [Handlers -> {"ensure", "confirm"}]
  /\ loc = [h \in Handlers |-> NoLoc]

NextEnsure ==
  \E h \in Handlers :
    \/ EnsSelect(h)
    \/ EnsCount(h)
    \/ EnsInsert(h)
    \/ EnsCommit(h)
    \/ CfSelect(h)
    \/ \E auto \in BOOLEAN : CfInsert(h, auto)
    \/ CfCommit(h)

SpecEnsure == InitEnsure /\ [][NextEnsure]_vars

\* the payments the sweeps start from: payment p checks out reservation p,
\* which holds slot p - 1, and is still pending at the provider
SweepPayIds == {p \in PayIds : p \in ResIds /\ p - 1 \in Slots}

SweepUser(p) == IF p \in Users THEN p ELSE SetMax(Users)

\* PIX payments waiting for the provider, the webhook and the sweeps, with the
\* failures their statements can meet
InitSweep ==
  /\ now = 0
  /\ draws = [d \in Draws |-> [status |-> "open", total_numbers |-> FullCount,
                               closed_at |-> <<>>, autopay_ran_at |-> <<>>]]
  /\ numbers = [d \in Draws |-> [n \in Slots |->
                  IF n + 1 \in SweepPayIds
                  THEN [status |-> "reserved", reservation_id |-> n + 1]
                  ELSE [status |-> "available", reservation_id |-> NULL]]]
  /\ reservations = [r \in ResIds |->
                  IF r \in SweepPayIds
                  THEN [user_id |-> SweepUser(r), draw_id |-> TheDraw, numbers |-> {r - 1},
                        status |-> "active", expires_at |-> ttlMin, payment_id |-> r]
                  ELSE NoResv]
  /\ payments = [p \in PayIds |->
                  IF p \in SweepPayIds
                  THEN [user_id |-> SweepUser(p), draw_id |-> TheDraw, numbers |-> {p - 1},
                        status |-> "pending", created_at |-> 0]
                  ELSE NoPay]
  /\ mp = [p \in PayIds |-> IF p \in SweepPayIds THEN "pending" ELSE "none"]
  /\ cards = IdleCards
  /\ recon = IdleRecon
  /\ paidRows = {}
  /\ vouchers = <<>>
  /\ autopay_runs = {}
  /\ last = NoResp
  /\ sess = <<>>
  /\ rowLock = <<>>
  /\ undo = <<>>
  /\ pc = [h \in Handlers |-> "idle"]
  /\ loc = [h \in Handlers |-> NoSweep]

NextSweep ==
  \/ \E id \in PayIds : MpApprove(id)
  \/ Tick
  \/ \E h \in Handlers, kind \in SweepKinds : SweepStart(h, kind)
  \/ \E h \in Handlers, id \in PayIds, fault \in Faults : SweepStep(h, id, fault)
  \/ \E h \in Handlers : SweepEnd(h, FALSE)

SpecSweep == InitSweep /\ [][NextSweep]_vars

NextWebhook ==
  \/ \E id \in PayIds : MpApprove(id)
  \/ Tick
  \/ \E type \in NotificationTypes, id \in PayIds \cup {NULL}, fault \in Faults :
        WebhookNotification(type, id, fault, TRUE)

\* the webhook alone on the same payments, with any notification and failure
SpecWebhook == InitSweep /\ [][NextWebhook]_vars

\* the failures that interrupt an iteration after the status is stored
InterruptFaults == {"none", "numbers", "reservations"}

NextSweepFair ==
  \/ \E id \in PayIds : MpApprove(id)
  \/ \E h \in Handlers, kind \in SweepKinds : SweepStart(h, kind)
  \/ \E h \in Handlers, id \in PayIds, fault \in InterruptFaults : SweepStep(h, id, fault)
  \/ \E h \in Handlers : SweepEnd(h, FALSE)

\* sweeps keep being started (timer, hits, forced and on-demand calls) and a
\* started sweep keeps running until it answers
SpecSweepFair ==
  /\ InitSweep
  /\ [][NextSweepFair]_vars
  /\ WF_vars(\E h \in Handlers, kind \in SweepKinds : SweepStart(h, kind))
  /\ WF_vars(\E h \in Handlers, id \in PayIds, fault \in InterruptFaults :
                SweepStep(h, id, fault))
  /\ WF_vars(\E h \in Handlers : SweepEnd(h, FALSE))

\* ================================================================ claims

\* the ids of the approved payments of draw d that contain n
ApprovedPaymentsWith(d, n) ==
  {<<"payments", p>> : p \in {q \in PayIds : /\ payments[q].draw_id = d
                                              /\ payments[q].status \in ApprovedStatus
                                              /\ n \in payments[q].numbers}}
  \cup
  {<<"inserted", r>> : r \in {q \in paidRows : /\ q.kind = "payment"
                                               /\ q.draw_id = d
                                               /\ q.status \in ApprovedStatus
                                               /\ n \in q.numbers}}

\* C2: in every state, for every draw D and number n, at most one approved
\* payment of D contains n (no double sale)
NoDoubleSale ==
  \A d \in Draws, n \in Slots : Cardinality(ApprovedPaymentsWith(d, n)) <= 1

\* C3: while a reservation R is active and unexpired, none of its numbers is
\* reserved by, or sold to, another user
HoldRespected ==
  \A r \in ResIds :
    (reservations[r].status = "active" /\ now < reservations[r].expires_at) =>
      \A n \in reservations[r].numbers :
        LET row == numbers[reservations[r].draw_id][n] IN
        /\ ~(/\ row.status = "reserved"
             /\ row.reservation_id \in ResIds
             /\ reservations[row.reservation_id].user_id # reservations[r].user_id)
        /\ ~(/\ row.status = "sold"
             /\ \E q \in ApprovedPaymentRows(payments, paidRows, reservations[r].draw_id) :
                   n \in q.numbers /\ q.user_id # reservations[r].user_id)

\* the ledger once the provider's approval of payment p has been stored
StoredApproved(p) == [Ledger EXCEPT !.payments[p].status = "approved"]

\* C4: for a payment the provider approved, a second run of the settlement
\* routine, at the same or a later time, leaves the ledger (slot statuses,
\* reservation statuses, draw status and closure time) as the first run left it
SettlementIdempotent ==
  \A p \in PayIds :
    (mp[p] = "approved") =>
      \A t2 \in now .. MaxTime :
        LET L1 == SettlementRoutine(StoredApproved(p), p, now)
        IN SettlementRoutine(L1, p, t2) = L1

\* C4 witness: an approved payment not yet settled whose settlement closes the
\* draw, with a later time left for the second run
SettlementClosesDraw ==
  \E p \in PayIds :
    /\ mp[p] = "approved"
    /\ payments[p].status = "pending"
    /\ now < MaxTime
    /\ draws[payments[p].draw_id].status = "open"
    /\ SettlementRoutine(StoredApproved(p), p, now).draws[payments[p].draw_id].status
          = "closed"

\* the reservations whose checkout is payment p
CheckedOutBy(rs, p) == {r \in ResIds : rs[r].status # "none" /\ rs[r].payment_id = p}

ClosesIffAllSold ==
  [][\A p \in PayIds :
       (/\ mp[p] = "approved"
        /\ draws[payments[p].draw_id].status = "open"
        /\ Webhook(p, FALSE)) =>
         (draws'[payments[p].draw_id].status = "closed"
            <=> SoldCount(numbers', payments[p].draw_id)
                   = draws[payments[p].draw_id].total_numbers)]_vars

\* the distinct, in-range numbers of a request
Requested(req) == {n \in Range(req) : n >= 0 /\ n <= FullCount - 1}

\* slot n of draw d is held by reservation r
HeldBy(d, n, r) ==
  numbers[d][n].status = "reserved" /\ numbers[d][n].reservation_id = r

\* reservation r was never paid and its expiry time has come
Lapsed(r) ==
  /\ reservations[r].status = "active"
  /\ reservations[r].payment_id = NULL
  /\ reservations[r].expires_at <= now

\* C6: a reserve request issued at or after the expiry time of a never-paid
\* reservation R, for numbers that are each either available or held by such
\* a reservation, marks R expired, frees the requested slots R held and
\* succeeds, without any run of the cleanup sweep
LazyExpiryUnblocks ==
  [][\A r \in ResIds :
       (/\ last'.op = "reserve"
        /\ last'.code \in {201, 409}
        /\ Lapsed(r)
        /\ \E n \in Requested(last'.req) : HeldBy(TheDraw, n, r)
        /\ \A n \in Requested(last'.req) :
              /\ n \notin paidTaken(payments, paidRows, TheDraw)
              /\ \/ numbers[TheDraw][n].status = "available"
                 \/ \E q \in ResIds : Lapsed(q) /\ HeldBy(TheDraw, n, q))
       =>
         /\ last'.code = 201
         /\ reservations'[r].status = "expired"
         /\ \A n \in Requested(last'.req) : ~(numbers'[TheDraw][n].reservation_id = r)]_vars

\* C7: a reserve request answered 'unavailable' lists exactly the distinct,
\* in-range requested numbers whose slot is not available once the lazy expiry
\* has freed what it frees, or that an approved payment of the draw contains
ConflictSetExact ==
  [][(last'.op = "reserve" /\ last'.error = "unavailable") =>
       /\ last'.code = 409
       /\ last'.freed \subseteq
            {n \in Requested(last'.req) :
               \E r \in ResIds : /\ HeldBy(TheDraw, n, r)
                                 /\ reservations[r].status \in BlockingStatus
                                 /\ reservations[r].expires_at <= now}
       /\ last'.conflicts =
            {n \in Requested(last'.req) :
               \/ (numbers[TheDraw][n].status # "available" /\ n \notin last'.freed)
               \/ ApprovedPaymentsWith(TheDraw, n) # {}}
       /\ last'.conflicts # {}]_vars

\* C7 witness: an 'unavailable' answer that leaves out a requested number and
\* lists one whose slot row says available
ConflictOnAvailableSlot ==
  /\ last.op = "reserve"
  /\ last.error = "unavailable"
  /\ Requested(last.req) \ last.conflicts # {}
  /\ \E n \in last.conflicts : numbers[TheDraw][n].status = "available"

\* C7 witness for a repeated number: the request repeats a sold number
RepeatedSoldNumber ==
  /\ last.op = "reserve"
  /\ last.error = "unavailable"
  /\ Len(last.req) > Cardinality(Range(last.req))
  /\ \E n \in last.conflicts : numbers[TheDraw][n].status = "sold"

\* the positions of the voucher rows of user u for draw d
RowsOf(vs, u, d) == {i \in 1 .. Len(vs) : vs[i].user_id = u /\ vs[i].draw_id = d}

RECURSIVE SetSum(_, _)
SetSum(S, f) ==
  IF S = {} THEN 0
  ELSE LET x == CHOOSE y \in S : TRUE IN f[x] + SetSum(S \ {x}, f)

\* C10: a successful voucher redemption of k numbers debits only the user's
\* rows of the draw, exactly k units in total, never below 0, and touches a
\* newer row only when every older row of the user has reached 0
VoucherFifoDebit ==
  [][(last'.op = "voucher" /\ last'.code = 200) =>
       \A d \in Draws :
         LET u == last'.user
             k == Cardinality(last'.numbers)
             mine == RowsOf(vouchers, u, d)
             debit == [i \in 1 .. Len(vouchers) |->
                         vouchers[i].remaining - vouchers'[i].remaining]
         IN
         /\ Len(vouchers') = Len(vouchers)
         /\ \A i \in 1 .. Len(vouchers) :
               /\ vouchers'[i].user_id = vouchers[i].user_id
               /\ vouchers'[i].draw_id = vouchers[i].draw_id
               /\ vouchers'[i].remaining >= 0
               /\ debit[i] >= 0
               /\ i \notin mine => debit[i] = 0
         /\ SetSum(mine, debit) = k
         /\ \A i, j \in mine :
               (i < j /\ debit[j] > 0) => vouchers'[i].remaining = 0]_vars

\* C10 witness: two numbers redeemed against two rows of the same user, the
\* older one emptied and the newer one left with 1
DebitSpansTwoRows ==
  /\ last.op = "voucher"
  /\ last.code = 200
  /\ Cardinality(last.numbers) = 2
  /\ Len(vouchers) = 2
  /\ vouchers[1].user_id = last.user
  /\ vouchers[2].user_id = last.user
  /\ vouchers[1].remaining = 0
  /\ vouchers[2].remaining = 1

\* C1: when two concurrent reserve requests share a number n and both have
\* answered, at most one of them committed a reservation containing n and the
\* other answered 'unavailable' listing n
ReserveExclusive ==
  \A h \in Handlers, g \in Handlers :
    (h # g /\ pc[h] = "done" /\ pc[g] = "done" /\ loc[h].code = 201) =>
      \A n \in loc[h].nums \cap loc[g].nums :
        /\ loc[g].code = 409
        /\ loc[g].error = "unavailable"
        /\ n \in loc[g].conflicts

\* C9: when the two concurrent settlements that together sell the last
\* unsold numbers of the draw have both finished, the committed draw is
\* closed, its closure time is set, and no draw is left open
FinalSettlementsClose ==
  (\A h \in Handlers : pc[h] = "done") =>
    /\ \A d \in Draws : /\ Committed.draws[d].status = "closed"
                        /\ Committed.draws[d].closed_at # <<>>
    /\ OpenDraws(Committed.draws) = {}

\* ------------------------------------------------------------ autopay
\* the favourites of profile i that isNumberFree finds free in draw d
FreeFavourites(i, d) ==
  {n \in Range(Wants(AutopayProfiles[i])) :
      isNumberFree(payments, paidRows, reservations, d, n)}

\* this step is an autopay run of draw d that committed
AutopayCommitted(d) ==
  draws[d].autopay_ran_at = <<>> /\ draws'[d].autopay_ran_at # <<>>

\* C11: in every autopay run whose writes the database accepts, if the provider
\* refuses or fails the charge of profile i and approves the charge of profile
\* j, then after the run the free favourites of j are sold and audited 'ok',
\* i has an 'error' audit row, and the outcome list has an entry per profile,
\* whichever of the two the loop met first
ChargeFailureIsolated ==
  [][\A d \in Draws : AutopayCommitted(d) =>
       \A i, j \in ProfileIds :
         (cards'[i].failed > cards[i].failed /\ cards'[j].approved > cards[j].approved) =>
           /\ \E r \in autopay_runs' \ autopay_runs :
                 /\ r.autopay_id = j /\ r.status = "ok" /\ r.draw_id = d
                 /\ r.bought_numbers = FreeFavourites(j, d)
                 /\ r.bought_numbers # {}
                 /\ \A n \in r.bought_numbers : numbers'[d][n].status = "sold"
           /\ \E r \in autopay_runs' \ autopay_runs :
                 r.autopay_id = i /\ r.status = "error" /\ r.draw_id = d
           /\ Len(last'.results) = Len(AutopayProfiles)]_vars

\* C11 witness: a committed run that met a profile whose charge failed first
\* and sold the numbers of the profile it met after it
FailedThenSold ==
  /\ Len(last.results) = Len(AutopayProfiles)
  /\ last.results[1].status = "error"
  /\ last.results[2].status = "ok"
  /\ \A n \in last.results[2].numbers : numbers[TheDraw][n].status = "sold"
  /\ \E r \in autopay_runs : r.status = "error" /\ r.user_id = last.results[1].user_id
  /\ \E r \in autopay_runs : r.status = "ok" /\ r.user_id = last.results[2].user_id

\* C12: when the provider approves the charges of two profiles in one run,
\* the run answers with its per-user outcome list and the purchase of at least
\* the profile met first is on record afterwards ('ok' audit row, sold slots),
\* whatever happens while the records of the other are written
EarlierPurchasesKept ==
  [][\A i, j \in ProfileIds :
       (/\ i # j
        /\ cards'[i].approved > cards[i].approved
        /\ cards'[j].approved > cards[j].approved) =>
          /\ last'.results # <<>>
          /\ \E r \in autopay_runs' :
                /\ r.status = "ok" /\ r.autopay_id \in {i, j}
                /\ \A n \in r.bought_numbers : numbers'[r.draw_id][n].status = "sold"]_vars

\* some profile has a favourite that isNumberFree finds free in draw d
SomethingToBuy(d) == \E i \in ProfileIds : FreeFavourites(i, d) # {}

\* the tables an autopay run writes are left as they are
AutopayTablesUnchanged ==
  UNCHANGED <<payments, paidRows, reservations, numbers, autopay_runs, cards>>

\* C13: once autopay has run for an open draw, a trigger without force charges
\* nothing and writes nothing, and a trigger with force = true processes the
\* profiles again
RerunOnlyWhenForced ==
  [][\A d \in Draws, o \in ProfileOrders :
       (draws[d].status = "open" /\ draws[d].autopay_ran_at # <<>>) =>
         /\ (\/ runAutopayForDraw(d, o, 0, TRUE)
             \/ ensureAutopayForDraw(d, FALSE, o, 0, TRUE)
             \/ runAutopayForOpenDraws(FALSE, o, 0, TRUE)) => AutopayTablesUnchanged
         /\ (/\ SomethingToBuy(d)
             /\ (\/ ensureAutopayForDraw(d, TRUE, o, 0, TRUE)
                 \/ runAutopayForOpenDraws(TRUE, o, 0, TRUE))) =>
               /\ last'.results # <<>>
               /\ \E i \in ProfileIds : cards'[i] # cards[i]]_vars

\* number n of draw d is taken under the rule of the reservation manager: it is
\* in an approved payment, or in a blocking reservation whose expiry has not come
TakenByHoldRule(d, n) ==
  \/ n \in paidTaken(payments, paidRows, d)
  \/ \E r \in ResIds :
        /\ reservations[r].status # "none" /\ reservations[r].draw_id = d
        /\ isBlocking(reservations[r]) /\ ~isExpired(reservations[r], now)
        /\ n \in reservations[r].numbers

\* the profile whose outcome is entry k of the outcome list
ProfileOfResult(res, k) ==
  CHOOSE i \in ProfileIds : AutopayProfiles[i].user_id = res[k].user_id

\* C14: the profile a committed run meets first is charged for exactly its
\* favourites that no approved payment and no unexpired blocking reservation
\* holds, and is skipped as none_available, without a charge, exactly when
\* there is none
BuysWhatHoldRuleLeaves ==
  [][\A d \in Draws : AutopayCommitted(d) =>
       LET i == ProfileOfResult(last'.results, 1)
           avail == {n \in Range(Wants(AutopayProfiles[i])) : ~TakenByHoldRule(d, n)}
           first == last'.results[1]
       IN /\ (avail = {}) <=> (first.status = "skipped" /\ first.reason = "none_available")
          /\ (avail = {}) => cards'[i] = cards[i]
          /\ (first.status = "ok") => first.numbers = avail]_vars

\* C15: when the provider answers the charge of a profile by asking for the
\* security code, mpChargeCard fails with code SECURITY_CODE_REQUIRED and the
\* run audits the failure, reports the profile as skipped, writes no payment
\* and no reservation for it and goes on to the other profiles
SecurityCodeSkips ==
  [][\A d \in Draws : AutopayCommitted(d) =>
       \A i \in ProfileIds :
         (DemandsSecurityCode(cards[i].answer) /\ cards'[i].failed > cards[i].failed) =>
           /\ mpChargeCard(cards[i].answer).code = "SECURITY_CODE_REQUIRED"
           /\ \E r \in autopay_runs' \ autopay_runs :
                 r.autopay_id = i /\ r.status = "error" /\ r.bought_numbers = {}
           /\ \E k \in 1 .. Len(last'.results) :
                 /\ last'.results[k].user_id = AutopayProfiles[i].user_id
                 /\ last'.results[k].status = "skipped"
           /\ \A r \in paidRows' \ paidRows : r.user_id # AutopayProfiles[i].user_id
           /\ Len(last'.results) = Len(AutopayProfiles)]_vars

\* C20: whenever a step sells the last unsold slot of an open draw, the draw
\* is closed after that step
LastSlotClosesDraw ==
  [][\A d \in Draws :
       (/\ draws[d].status = "open"
        /\ SoldCount(numbers, d) < FullCount
        /\ SoldCount(numbers', d) = FullCount) => draws'[d].status = "closed"]_vars

\* ------------------------------------------------------ sweeps, webhook
\* C16: at most one sweep is in its loop at any time
AtMostOneSweep == Cardinality({h \in Handlers : pc[h] = "loop"}) <= 1

\* payment p is settled: its numbers are sold and its reservation is paid
Settled(p) ==
  /\ \A n \in payments[p].numbers : numbers[payments[p].draw_id][n].status = "sold"
  /\ \A r \in CheckedOutBy(reservations, p) : reservations[r].status = "paid"

\* C17: an iteration whose provider query fails leaves the payment, its numbers,
\* the reservations and the draw as they were, counts one failure and leaves
\* every other row of the batch to be visited; every row of the batch is either
\* visited or still to be visited; and an iteration that meets no failure
\* settles the payment the provider approved, whatever failed before it
SweepSurvivesProviderFailure ==
  [][/\ \A h \in Handlers, id \in PayIds :
          SweepStep(h, id, "provider") =>
            /\ UNCHANGED <<payments, numbers, reservations, draws>>
            /\ loc'[h].failed = loc[h].failed + 1
            /\ loc'[h].rows = loc[h].rows \ {id}
            /\ pc'[h] = "loop"
     /\ \A h \in Handlers :
          pc'[h] = "loop" => loc'[h].rows \cup loc'[h].queried = loc'[h].batch
     /\ \A h \in Handlers, id \in PayIds :
          (SweepStep(h, id, "none") /\ mp[id] = "approved") =>
            /\ payments'[id].status = "approved"
            /\ \A n \in payments[id].numbers :
                  numbers'[payments[id].draw_id][n].status = "sold"
            /\ \A r \in CheckedOutBy(reservations, id) : reservations'[r].status = "paid"]_vars

\* C17 witness: a sweep at the end of its loop that counted one failure for a
\* payment the provider approved, left that payment pending with its number
\* reserved, and settled the other payment of its batch
FailedOneSettledOther ==
  \E h \in Handlers, p, q \in PayIds :
    /\ pc[h] = "loop" /\ loc[h].rows = {} /\ loc[h].batch = {p, q} /\ p # q
    /\ loc[h].failed = 1 /\ loc[h].approved = 1
    /\ mp[p] = "approved" /\ payments[p].status = "pending"
    /\ \A n \in payments[p].numbers : numbers[payments[p].draw_id][n].status = "reserved"
    /\ payments[q].status = "approved" /\ Settled(q)

\* C18: every payment the provider has approved is eventually settled by the
\* sweeps
ApprovedEventuallySettled ==
  \A p \in PayIds : (mp[p] = "approved") ~> Settled(p)

SoldStaysSold ==
  [][\A n \in Slots :
       Committed.numbers[n].status = "sold" => Committed'.numbers[n].status = "sold"]_vars

\* C21: a closed draw stays closed, keeps its closure time and the status of
\* every one of its slots
ClosedStaysClosed ==
  [][\A d \in Draws :
       draws[d].status = "closed" =>
         /\ draws'[d].status = "closed"
         /\ draws'[d].closed_at = draws[d].closed_at
         /\ \A n \in Slots : numbers'[d][n].status = numbers[d][n].status]_vars

\* ------------------------------------------------------- voucher redemption
\* C22: a redemption that asks for a number that is sold, that an approved
\* payment of the draw contains, or that another user's active unexpired
\* reservation holds, sells no number and debits no voucher
VoucherRejectsTaken ==
  [][\A u \in Users, d \in Draws, req \in VoucherRequests :
       (/\ VoucherConsume(u, d, req, NULL, FALSE)
        /\ \E n \in Range(req) :
              \/ numbers[d][n].status = "sold"
              \/ n \in paidTaken(payments, paidRows, d)
              \/ \E r \in ResIds :
                    /\ reservations[r].status = "active"
                    /\ reservations[r].draw_id = d
                    /\ reservations[r].user_id # u
                    /\ ~isExpired(reservations[r], now)
                    /\ n \in reservations[r].numbers)
       => /\ numbers' = numbers
          /\ vouchers' = vouchers]_vars

\* C23: while and after one user's concurrent redemptions run, no voucher row
\* is below zero, the slots sold in the committed tables are no more than the
\* balance the user held, and once both have answered every sold slot was paid
\* by a unit of its own
RedeemWithinBalance ==
  LET sold == Cardinality({n \in Slots : Committed.numbers[n].status = "sold"})
      left == SeqSum([i \in DOMAIN vouchers |-> Committed.vouchers[i].remaining])
  IN
  /\ \A i \in DOMAIN vouchers : vouchers[i].remaining >= 0
  /\ sold <= RedeemBalance
  /\ (\A h \in Handlers : pc[h] = "done") => sold <= RedeemBalance - left

SettlementAtomic ==
  /\ [](\A p \in PayIds : payments[p].status = "approved" => Settled(p))
  /\ [][\A type \in NotificationTypes, id \in PayIds, fault \in Faults :
          (WebhookNotification(type, id, fault, TRUE) /\ ~WebhookIgnores(type, id)
             /\ Threw(fault, mp[id]))
          => UNCHANGED <<payments, numbers, reservations, draws>>]_vars

\* ------------------------------------------------------ reserve, all or nothing
\* C26: a reserve request answered 201 has left, committed, one active
\* reservation of its user for the requested numbers, expiring a TTL after the
\* request, with every requested slot reserved and pointing at it; a request
\* answered with a conflict has left no reservation of its user
ReserveAllOrNothing ==
  \A h \in Handlers :
    pc[h] = "done" =>
      /\ loc[h].code = 201 =>
           /\ Committed.reservations[loc[h].rid] =
                [user_id |-> h, draw_id |-> loc[h].drawId, numbers |-> loc[h].nums,
                 status |-> "active", expires_at |-> now + ttlMin, payment_id |-> NULL]
           /\ \A r \in ResIds \ {loc[h].rid} : Committed.reservations[r].user_id # h
           /\ \A n \in loc[h].nums :
                 Committed.numbers[n] = [status |-> "reserved",
                                         reservation_id |-> loc[h].rid]
      /\ loc[h].code = 409 =>
           \A r \in ResIds : Committed.reservations[r].user_id # h

\* a committed reservation of the reserve route that is still active holds n
HeldByManual(n) ==
  \E r \in ResIds : /\ Committed.reservations[r].status = "active"
                    /\ n \in Committed.reservations[r].numbers

\* C27: a manual reservation and an autopay run on the same draw never both
\* obtain the same number: when the run has charged for n, marked it sold and
\* committed, no committed active reservation of the reserve route holds n, and
\* the run never charges for a number that a committed active reservation
\* already holds.
NoNumberTwice ==
  /\ [](\A h \in {AutopayHandler} :
          (pc[h] = "done" /\ loc[h].code = 200) =>
             \A n \in loc[h].bought : ~HeldByManual(n))
  /\ [][\A h \in {AutopayHandler} :
          (pc[h] = "buy" /\ cards'[ApProfile(h).id].approved > cards[ApProfile(h).id].approved)
             => \A n \in loc[h].free : ~HeldByManual(n)]_vars

\* the reservations payment p can have been created for: POST /pix copies the
\* user, the draw and the numbers of the reservation into the payment
MadeFor(p) ==
  {r \in ResIds : /\ reservations[r].status # "none"
                  /\ payments[p].status # "none"
                  /\ reservations[r].user_id = payments[p].user_id
                  /\ reservations[r].draw_id = payments[p].draw_id
                  /\ reservations[r].numbers = payments[p].numbers}

\* C29: however many times POST /api/payments/pix was called for a reservation
\* R, a step that stores one of the payments created for R as approved and
\* settles it leaves R paid and R's numbers sold (R is named whenever it is the
\* only reservation the payment can have been created for).
AnyCheckoutSettlesReservation ==
  [][\A p \in PayIds, r \in ResIds :
       (/\ payments[p].status # "approved"
        /\ payments'[p].status = "approved"
        /\ MadeFor(p) = {r})
       => /\ reservations'[r].status = "paid"
          /\ \A n \in reservations[r].numbers :
                numbers'[reservations[r].draw_id][n].status = "sold"]_vars

\* C30: after any interleaving of concurrent ensure-open-draw and
\* purchases/confirm requests for one product, the product has at most one
\* committed draw with status open.
AtMostOneOpenDraw == Cardinality(OpenOfProduct) <= 1


============================================================================
